---- MODULE Spec2Model ----
(***************************************************************************)
(* Mythic Runes: the round engine of a timed word-formation game.          *)
(*                                                                         *)
(* Strings are sequences of one-character strings, so that trimming,       *)
(* lower-casing, filtering and slicing are computed character by           *)
(* character as the JavaScript does.                                       *)
(***************************************************************************)
EXTENDS Integers, Sequences, FiniteSets, TLC

(***************************************************************************)
(* GAME_CONFIG                                                             *)
(***************************************************************************)
NUM_LETTERS == 10

MIN_WORD_LENGTH == 2

MAX_WORD_LENGTH == 20

VOWEL_POOL == <<"A","E","I","O","U">>

CONSONANT_POOL ==
  <<
    "B","B","C","C","D","D","D","F","F","G","G",
    "H","H","J","J","K","K","L","L","M","M","N",
    "N","P","P","Q","Q","R","R","S","S","T","T",
    "T","V","V","W","W","X","X","Y","Y","Z","Z"
  >>

\* GAME_CONFIG.SCORING: the object literal, keys 2..8.
SCORING == [len \in 2..8 |->
              CASE len = 2 -> 1
                [] len = 3 -> 2
                [] len = 4 -> 3
                [] len = 5 -> 5
                [] len = 6 -> 8
                [] len = 7 -> 12
                [] len = 8 -> 20]

\* Round length in seconds.  The shipped value is 120; the model runs a
\* shortened round, which changes the number of ticks and nothing else.
DURATION_SECONDS == 2

(***************************************************************************)
(* Characters and JavaScript string primitives                             *)
(***************************************************************************)
UpperLetters ==
  <<"A","B","C","D","E","F","G","H","I","J","K","L","M",
    "N","O","P","Q","R","S","T","U","V","W","X","Y","Z">>

LowerLetters ==
  <<"a","b","c","d","e","f","g","h","i","j","k","l","m",
    "n","o","p","q","r","s","t","u","v","w","x","y","z">>

Range(s) == {s[i] : i \in DOMAIN s}

\* Characters String.prototype.trim removes (those the model's inputs use).
Whitespace == {" ", "\t", "\r", "\n"}

\* String.prototype.toLowerCase on one character.
ToLowerChar(c) ==
  IF \E i \in DOMAIN UpperLetters : UpperLetters[i] = c
    THEN LowerLetters[CHOOSE i \in DOMAIN UpperLetters : UpperLetters[i] = c]
    ELSE c

\* String.prototype.toLowerCase.
ToLowerCase(s) == [i \in DOMAIN s |-> ToLowerChar(s[i])]

\* String.prototype.trim: drops leading and trailing whitespace.
Trim(s) ==
  LET keep == {i \in DOMAIN s : s[i] \notin Whitespace}
  IN  IF keep = {} THEN <<>>
      ELSE LET lo == CHOOSE i \in keep : \A j \in keep : i <= j
               hi == CHOOSE i \in keep : \A j \in keep : j <= i
           IN  SubSeq(s, lo, hi)

\* String.prototype.slice(0, n).
Slice(s, n) == IF Len(s) <= n THEN s ELSE SubSeq(s, 1, n)

\* The regular expression class [a-z].
IsLowerAZ(c) == c \in Range(LowerLetters)

\* The regular expression class [a-zA-Z].
IsLetter(c) == c \in Range(LowerLetters) \cup Range(UpperLetters)

\* .replace(/[^a-z]/g, ''): keeps the characters a to z, in order.
StripNonLower(s) == SelectSeq(s, IsLowerAZ)

(***************************************************************************)
(* Utils                                                                   *)
(***************************************************************************)
\* Faulty variant of sanitizeInput that keeps the case of the letters.
sanitizeInput_keepsCase(input) ==
  Slice(SelectSeq(Trim(input), IsLetter), MAX_WORD_LENGTH)

\* Utils.sanitizeInput
sanitizeInput(input) ==
  Slice(StripNonLower(ToLowerCase(Trim(input))), MAX_WORD_LENGTH)

\* Utils.isValidInput
isValidInput(input) ==
  IF Len(input) < MIN_WORD_LENGTH THEN FALSE
  ELSE IF Len(input) > MAX_WORD_LENGTH THEN FALSE
  ELSE Len(input) >= 1 /\ \A i \in DOMAIN input : IsLetter(input[i])

(***************************************************************************)
(* Math.random                                                             *)
(*                                                                         *)
(* A call of generate() or shuffleArray() consumes a run of values of      *)
(* Math.random().  A run is identified by a tape number; the k-th value    *)
(* of tape t is RandomNum(t, k) / RAND_DEN, a fraction in [0, 1).          *)
(***************************************************************************)
RAND_DEN == 256

MaxTape == 1

Tapes == 0..(MaxTape - 1)

RandomNum(t, k) == ((t + 1) * (k + 16) + 7 * k * k + 3 * t) % RAND_DEN

\* Math.floor(Math.random() * n), for the k-th value of tape t.
RandomIndex(t, k, n) == (RandomNum(t, k) * n) \div RAND_DEN

\* Utils.shuffleArray: Fisher-Yates on a copy; i runs from the last index
\* (0-based length - 1) down to 1, the step for i being the (length - i)-th
\* draw of the tape after `used` earlier draws.
RECURSIVE ShuffleFrom(_, _, _, _)
ShuffleFrom(shuffled, i, t, used) ==
  IF i <= 0 THEN shuffled
  ELSE LET j  == RandomIndex(t, used + (Len(shuffled) - i), i + 1)
           sw == [shuffled EXCEPT ![i + 1] = shuffled[j + 1],
                                  ![j + 1] = shuffled[i + 1]]
       IN  ShuffleFrom(sw, i - 1, t, used)

\* Faulty variant of shuffleArray that fills every position with a random
\* element of the array instead of swapping.
shuffleArray_overwrite(array, t, used) ==
  [i \in DOMAIN array |->
     array[RandomIndex(t, used + (i - 1), Len(array)) + 1]]

shuffleArray(array, t, used) == ShuffleFrom(array, Len(array) - 1, t, used)

(***************************************************************************)
(* LetterGenerator                                                         *)
(***************************************************************************)
numVowels == 4

\* Faulty variant of generateDraws whose first loop runs once too often
\* (i <= numVowels in place of i < numVowels, counting from 0).
generateDraws_extraVowel(t) ==
  [i \in 1..NUM_LETTERS |->
     IF i <= numVowels + 1
       THEN VOWEL_POOL[RandomIndex(t, i, Len(VOWEL_POOL)) + 1]
       ELSE CONSONANT_POOL[RandomIndex(t, i, Len(CONSONANT_POOL)) + 1]]

\* The two for loops of generate(): the letters before the shuffle.
generateDraws(t) ==
  [i \in 1..NUM_LETTERS |->
     IF i <= numVowels
       THEN VOWEL_POOL[RandomIndex(t, i, Len(VOWEL_POOL)) + 1]
       ELSE CONSONANT_POOL[RandomIndex(t, i, Len(CONSONANT_POOL)) + 1]]

\* LetterGenerator.generate
generate(t) == shuffleArray(generateDraws(t), t, NUM_LETTERS)

\* What generate() returns on each tape.
generateOn == [t \in Tapes |-> generate(t)]

\* The letterCounts object after the forEach over availableLetters.
letterCountsOf(availableLetters) ==
  [c \in {ToLowerChar(availableLetters[i]) : i \in DOMAIN availableLetters} |->
     Cardinality({i \in DOMAIN availableLetters :
                    ToLowerChar(availableLetters[i]) = c})]

\* The for..of loop of canFormWord over word.toLowerCase(), from position i.
RECURSIVE canFormFrom(_, _, _)
canFormFrom(w, i, letterCounts) ==
  IF i > Len(w) THEN TRUE
  ELSE IF w[i] \notin DOMAIN letterCounts \/ letterCounts[w[i]] = 0
         THEN FALSE
         ELSE canFormFrom(w, i + 1,
                          [letterCounts EXCEPT ![w[i]] = letterCounts[w[i]] - 1])

\* Faulty variant of canFormWord that never consumes a letter: it only looks
\* whether each letter of the word is in the pool at all.
canFormWord_presenceOnly(word, availableLetters) ==
  \A i \in DOMAIN word :
    ToLowerChar(word[i]) \in DOMAIN letterCountsOf(availableLetters)

\* LetterGenerator.canFormWord
canFormWord(word, availableLetters) ==
  canFormFrom(ToLowerCase(word), 1, letterCountsOf(availableLetters))

(***************************************************************************)
(* Dictionary._loadFallbackDictionary: the built-in word list              *)
(***************************************************************************)
fallbackWords == {
    <<"c","a","t">>, <<"d","o","g">>, <<"h","o","u","s","e">>,
    <<"t","r","e","e">>, <<"r","u","n">>, <<"j","u","m","p">>,
    <<"p","l","a","y">>, <<"g","a","m","e">>, <<"w","o","r","d">>,
    <<"l","e","t","t","e","r">>, <<"a","p","p","l","e">>, <<"b","a","n","a","n","a">>,
    <<"o","r","a","n","g","e">>, <<"c","o","m","p","u","t","e","r">>, <<"k","e","y","b","o","a","r","d">>,
    <<"m","o","u","s","e">>, <<"o","c","e","a","n">>, <<"m","o","u","n","t","a","i","n">>,
    <<"e","l","e","p","h","a","n","t">>, <<"g","i","r","a","f","f","e">>, <<"h","a","p","p","i","n","e","s","s">>,
    <<"f","r","e","e","d","o","m">>, <<"c","o","u","r","a","g","e">>, <<"j","u","s","t","i","c","e">>,
    <<"w","i","s","d","o","m">>, <<"v","i","k","i","n","g">>, <<"v","a","l","k","y","r","i","e">>,
    <<"n","o","r","s","e">>, <<"r","u","n","e">>, <<"m","y","t","h">>,
    <<"l","e","g","e","n","d">>, <<"h","e","r","o">>, <<"b","a","t","t","l","e">>,
    <<"s","w","o","r","d">>, <<"s","h","i","e","l","d">>, <<"d","r","a","g","o","n">>,
    <<"w","o","l","f">>, <<"b","e","a","r">>, <<"e","a","g","l","e">>,
    <<"s","t","o","r","m">>, <<"t","h","u","n","d","e","r">>, <<"l","i","g","h","t","n","i","n","g">>,
    <<"f","i","r","e">>, <<"i","c","e">>, <<"w","i","n","d">>,
    <<"e","a","r","t","h">>, <<"w","a","t","e","r">>, <<"m","a","g","i","c">>,
    <<"s","p","e","l","l">>, <<"q","u","e","s","t">>, <<"a","d","v","e","n","t","u","r","e">>
  }


(***************************************************************************)
(* Bounds of the model                                                     *)
(***************************************************************************)
\* Rounds begun (the startGame calls that reach the reset) in one run.
MaxRounds == 2

\* shuffleLetters calls that take effect within one round.
MaxShuffles == 1

\* Clock advances (Date.now() steps) in one run.
MaxElapsed == 1

\* GAME_CONFIG.CACHE.DICTIONARY_MAX_AGE, in the model's clock unit (the
\* shipped value is seven days in milliseconds).
DICTIONARY_MAX_AGE == 2

\* Date.now() when the page loads.
StartTime == DICTIONARY_MAX_AGE + 2

\* JavaScript null, where the other values are numbers.
NULL == 0 - 1

(***************************************************************************)
(* The environment's inputs                                                *)
(***************************************************************************)
\* What the player types or pastes into the word input.
RawInputs == {
    <<"c","a","t">>,
    <<" ","C","a","T","!","\n">>,
    <<"t","a","c">>,
    <<"a">>,
    <<>>,
    <<"4"," ","2">>,
    <<"E","e","r","i","e"," ","e","e","r","i","e"," ","e","e","r","i","e"," ","e","e","r","i","e"," ","e">>
  }

\* The body of words.txt as the server sends it.
WordsTxt ==
  <<"C","a","t","\r","\n","i","c","e","\n"," ","a","\n","t","a","c"," ","\n","\n","I","C","E","\n">>

NetworkTexts == {WordsTxt}

(***************************************************************************)
(* State                                                                   *)
(***************************************************************************)
VARIABLES
  gameState,        \* the GameState object
  gameTimer,        \* the GameTimer object: interval, timeLeft, isPaused
  dictionary,       \* the Dictionary object: words, isLoaded, loadPromise
  intervals,        \* ids of the intervals setInterval has created and
                    \* clearInterval has not cleared
  debouncePending,  \* the timeout of debouncedSubmitWord is armed
  loadPc,           \* where _loadDictionary is suspended
  preloadWaiting,   \* preloadDictionary is suspended at its await
  startWaiters,     \* startGame calls suspended at their await
  storeDictionary,  \* localStorage: mythic_runes_dictionary
  storeHighScore,   \* localStorage: mythic_runes_high_score
  storeStats,       \* localStorage: mythic_runes_stats
  message,          \* category of the message uiManager.showMessage showed last
  isInitialized,    \* MythicRunesGame.isInitialized
  now,              \* Date.now()
  rounds,           \* rounds begun so far
  shuffles,         \* shuffles performed in the current round
  fetches,          \* fetch('words.txt') requests issued so far
  cacheWrites,      \* Storage.set calls of _saveToCache so far
  cfArgs,           \* arguments of a direct canFormWord call
  cfResult,         \* its result
  generated,        \* result of a direct generate() call
  starts,           \* direct GameTimer.start() calls so far
  firings,          \* runs of the interval callback since the last direct start()
  onTickCalls,      \* values passed to onTick since the last direct start()
  onCompleteCalls,  \* onComplete calls since the last direct start()
  loadReturned,     \* the promises direct Dictionary.load() calls returned
  observed,         \* what callers of load() saw when their await resumed
  scored,           \* direct calculateWordScore calls: the word and the result
  lsDictionary,     \* localStorage text under mythic_runes_dictionary
  lsStats,          \* localStorage text under mythic_runes_stats
  written,          \* what the last _saveToCache call put into its record
  thrown,           \* the exception that left the last handler uncaught
  unresolved,       \* handleSubmitWord calls whose promise has not resolved
  resetFrom,        \* the phase in which the last direct reset() call was made
  pauseTrace,       \* what paused the timer last, and the keys pressed since
  chosen            \* argument of the last selectCharacter call

vars == <<gameState, gameTimer, dictionary, intervals, debouncePending, loadPc,
          preloadWaiting, startWaiters, storeDictionary, storeHighScore,
          storeStats, message, isInitialized, now, rounds, shuffles,
          fetches, cacheWrites, cfArgs, cfResult, generated, starts, firings,
          onTickCalls, onCompleteCalls, loadReturned, observed, scored,
          lsDictionary, lsStats, written, thrown, unresolved, resetFrom,
          pauseTrace, chosen>>

storeVars == <<storeDictionary, storeHighScore, storeStats>>

loadVars == <<dictionary, loadPc, preloadWaiting, fetches, cacheWrites>>

timerVars == <<gameTimer, intervals>>

timerHarness == <<starts, firings, onTickCalls, onCompleteCalls>>

loadHarness == <<loadReturned, observed>>

\* Variables that only the specifications of single classes and of the
\* storage and event layers below change.
textVars == <<lsDictionary, lsStats, written, thrown>>

eventVars == <<unresolved, pauseTrace, chosen>>

detailVars == <<scored, textVars, eventVars, resetFrom>>

harnessVars == <<cfArgs, cfResult, generated, timerHarness, loadHarness,
                 detailVars>>

(***************************************************************************)
(* GameState                                                               *)
(***************************************************************************)
\* GameState.reset: every field is overwritten.
GameState_reset ==
  [currentLetters    |-> <<>>,
   foundWords        |-> {},
   invalidWords      |-> {},
   score             |-> 0,
   timeLeft          |-> DURATION_SECONDS,
   isActive          |-> FALSE,
   selectedCharacter |-> "null",
   gameStartTime     |-> NULL,
   gameEndTime       |-> NULL]

\* Faulty variant of calculateWordScore that reads the table one length up.
calculateWordScore_nextLength(word) ==
  IF (Len(word) + 1) \in DOMAIN SCORING
    THEN SCORING[Len(word) + 1]
    ELSE SCORING[8]

\* Faulty variant of calculateWordScore that pays one point per letter.
calculateWordScore_perLetter(word) == Len(word)

\* GameState.calculateWordScore: SCORING[length] || SCORING[8]
calculateWordScore(word) ==
  IF Len(word) \in DOMAIN SCORING /\ SCORING[Len(word)] # 0
    THEN SCORING[Len(word)]
    ELSE SCORING[8]

\* Faulty variant of addFoundWord that records the word without its points.
addFoundWord_noPoints(gs, word) == [gs EXCEPT !.foundWords = @ \cup {word}]

\* GameState.addFoundWord
addFoundWord(gs, word) ==
  [gs EXCEPT !.foundWords = @ \cup {word},
             !.score = @ + calculateWordScore(word)]

\* Faulty variant of addInvalidWord that records nothing.
addInvalidWord_dropped(gs, word) == gs

\* GameState.addInvalidWord
addInvalidWord(gs, word) == [gs EXCEPT !.invalidWords = @ \cup {word}]

\* Faulty variant of hasFoundWord that never finds the word.
hasFoundWord_never(gs, word) == FALSE

\* GameState.hasFoundWord
hasFoundWord(gs, word) == word \in gs.foundWords

\* GameState.hasInvalidWord
hasInvalidWord(gs, word) == word \in gs.invalidWords

\* GameState.startGame, at Date.now() = t
GameState_startGame(gs, t) ==
  [gs EXCEPT !.isActive = TRUE, !.gameStartTime = t]

\* GameState.endGame, at Date.now() = t
GameState_endGame(gs, t) ==
  [gs EXCEPT !.isActive = FALSE, !.gameEndTime = t]

(***************************************************************************)
(* GameTimer.  A timer world is the timer object with the set of live      *)
(* intervals: [tm |-> gameTimer, live |-> intervals].                      *)
(***************************************************************************)
\* Faulty variant of stop that forgets clearInterval.
GameTimer_stop_noClear(tw) == [tm |-> [tw.tm EXCEPT !.interval = 0], live |-> tw.live]

\* GameTimer.stop
GameTimer_stop(tw) ==
  IF tw.tm.interval # 0
    THEN [tm   |-> [tw.tm EXCEPT !.interval = 0],
          live |-> tw.live \ {tw.tm.interval}]
    ELSE tw

\* Faulty variant of start that does not stop the running interval first.
GameTimer_start_noStop(tw, duration, id) ==
  [tm   |-> [interval |-> id, timeLeft |-> duration, isPaused |-> FALSE],
   live |-> tw.live \cup {id}]

\* GameTimer.start(duration); id is the id setInterval returns.
GameTimer_start(tw, duration, id) ==
  LET stopped == GameTimer_stop(tw)
  IN  [tm   |-> [interval |-> id, timeLeft |-> duration, isPaused |-> FALSE],
       live |-> stopped.live \cup {id}]

\* GameTimer.pause
GameTimer_pause(tm) == [tm EXCEPT !.isPaused = TRUE]

\* GameTimer.resume
GameTimer_resume(tm) == [tm EXCEPT !.isPaused = FALSE]

(***************************************************************************)
(* Dictionary and Storage                                                  *)
(***************************************************************************)
\* String.prototype.split(sep) for a one-character separator.
RECURSIVE Split(_, _)
Split(s, sep) ==
  IF \A i \in DOMAIN s : s[i] # sep THEN <<s>>
  ELSE LET p == CHOOSE i \in DOMAIN s :
                  s[i] = sep /\ \A j \in 1..(i - 1) : s[j] # sep
       IN  <<SubSeq(s, 1, p - 1)>> \o Split(SubSeq(s, p + 1, Len(s)), sep)

\* _loadFromNetwork: text.split('\n').map(trim, lower).filter(length >= MIN),
\* then new Set(wordsArray).
parseWords(text) ==
  LET lines == Split(text, "\n")
      wordsArray == SelectSeq([i \in DOMAIN lines |-> ToLowerCase(Trim(lines[i]))],
                              LAMBDA w : Len(w) >= MIN_WORD_LENGTH)
  IN  Range(wordsArray)

\* Array.from(set): the elements of the set, each once.
RECURSIVE ArrayFrom(_)
ArrayFrom(S) ==
  IF S = {} THEN <<>>
  ELSE LET e == CHOOSE e \in S : TRUE IN <<e>> \o ArrayFrom(S \ {e})

\* Dictionary._loadFallbackDictionary
loadFallbackDictionary(d) ==
  [d EXCEPT !.words = fallbackWords, !.isLoaded = TRUE]

\* Dictionary.hasWord
hasWord(d, word) == ToLowerCase(word) \in d.words

\* Faulty variant of _loadFromCache that still accepts a record whose age
\* equals DICTIONARY_MAX_AGE.
loadFromCache_offByOne(store, t) ==
  IF store.kind = "record" /\ store.timestamp # 0
    THEN IF t - store.timestamp <= DICTIONARY_MAX_AGE
           THEN [hit |-> TRUE, words |-> Range(store.words), store |-> store]
           ELSE [hit |-> FALSE, words |-> {}, store |-> [kind |-> "absent"]]
    ELSE [hit |-> FALSE, words |-> {}, store |-> store]

\* Dictionary._loadFromCache at Date.now() = t: the Set to adopt (hit) or null,
\* and the cache entry it leaves (a stale entry is removed).
loadFromCache(store, t) ==
  IF store.kind = "record" /\ store.timestamp # 0
    THEN IF t - store.timestamp < DICTIONARY_MAX_AGE
           THEN [hit |-> TRUE, words |-> Range(store.words), store |-> store]
           ELSE [hit |-> FALSE, words |-> {}, store |-> [kind |-> "absent"]]
    ELSE [hit |-> FALSE, words |-> {}, store |-> store]

\* Dictionary._saveToCache at Date.now() = t
saveToCache(d, t) ==
  [kind |-> "record", words |-> ArrayFrom(d.words), timestamp |-> t]

(***************************************************************************)
(* Initial state: the page has constructed MythicRunesGame; init() has not *)
(* run yet.  localStorage holds what earlier sessions left.                *)
(***************************************************************************)
InitialCaches ==
  {[kind |-> "absent"]} \cup
  {[kind |-> "record", words |-> ArrayFrom(parseWords(WordsTxt)), timestamp |-> ts] :
     ts \in {StartTime - DICTIONARY_MAX_AGE, StartTime - DICTIONARY_MAX_AGE + 1}}

InitTimerHarness ==
  /\ starts = 0
  /\ firings = 0
  /\ onTickCalls = <<>>
  /\ onCompleteCalls = 0

InitLoadHarness ==
  /\ loadReturned = <<>>
  /\ observed = <<>>

\* localStorage holds no text under a key.
NoItem == [present |-> FALSE, text |-> <<>>]

InitText ==
  /\ lsDictionary = NoItem
  /\ lsStats = NoItem
  /\ written = [words |-> {}, timestamp |-> NULL]
  /\ thrown = "none"

InitDetail ==
  /\ scored = <<>>
  /\ InitText
  /\ unresolved = 0
  /\ pauseTrace = [by |-> "none", keys |-> 0]
  /\ chosen = "none"
  /\ resetFrom = "none"

InitHarness ==
  /\ cfArgs = [word |-> <<>>, pool |-> <<>>]
  /\ cfResult = "none"
  /\ generated = <<>>
  /\ InitTimerHarness
  /\ InitLoadHarness
  /\ InitDetail

InitObjects ==
  /\ gameState = GameState_reset
  /\ gameTimer = [interval |-> 0, timeLeft |-> 0, isPaused |-> FALSE]
  /\ dictionary = [words |-> {}, isLoaded |-> FALSE, loadPromise |-> "null"]
  /\ intervals = {}
  /\ debouncePending = FALSE
  /\ loadPc = "none"
  /\ preloadWaiting = FALSE
  /\ fetches = 0
  /\ cacheWrites = 0
  /\ startWaiters = 0
  /\ message = "none"
  /\ isInitialized = FALSE
  /\ now = StartTime
  /\ rounds = 0
  /\ shuffles = 0

Init ==
  /\ InitObjects
  /\ storeDictionary \in InitialCaches
  /\ storeHighScore = NULL
  /\ storeStats = [kind |-> "absent"]
  /\ InitHarness

(***************************************************************************)
(* Scheduling.  JavaScript runs one task at a time; the continuations of a *)
(* settled promise (microtasks) run before the next event, timer callback  *)
(* or network response.                                                    *)
(***************************************************************************)
Settled == dictionary.loadPromise \in {"fulfilled", "rejected"}

MicrotasksPending == Settled /\ (preloadWaiting \/ startWaiters > 0)

\* An event listener or timer callback may run: init() has registered the
\* listeners and no microtask is queued.
TaskMayRun == isInitialized /\ ~MicrotasksPending

(***************************************************************************)
(* MythicRunesGame.init -> preloadDictionary -> Dictionary.load            *)
(***************************************************************************)
\* init(): registers the listeners and calls preloadDictionary(), whose
\* dictionary.load() runs _loadDictionary up to its first await: the cache
\* check and, on a miss, the fetch request.
AppInit ==
  /\ ~isInitialized
  /\ isInitialized' = TRUE
  /\ LET cached == loadFromCache(storeDictionary, now)
     IN  /\ storeDictionary' = cached.store
         /\ IF cached.hit
              THEN /\ dictionary' = [words |-> cached.words, isLoaded |-> TRUE,
                                     loadPromise |-> "fulfilled"]
                   /\ loadPc' = "done"
                   /\ preloadWaiting' = FALSE
                   /\ UNCHANGED fetches
              ELSE /\ dictionary' = [dictionary EXCEPT !.loadPromise = "pending"]
                   /\ loadPc' = "fetch"
                   /\ preloadWaiting' = TRUE
                   /\ fetches' = fetches + 1
  /\ UNCHANGED cacheWrites
  /\ UNCHANGED <<gameState, timerVars, debouncePending, startWaiters,
                 storeHighScore, storeStats, message, now, rounds, shuffles,
                 harnessVars>>

\* Faulty variant of the catch block that rethrows without the fallback list.
LoadFailed_noFallback ==
  /\ dictionary' = [dictionary EXCEPT !.loadPromise = "rejected"]
  /\ loadPc' = "done"
  /\ UNCHANGED storeDictionary

\* Faulty variant of the catch block that also caches the fallback list.
LoadFailed_cachesFallback ==
  /\ dictionary' = [loadFallbackDictionary(dictionary) EXCEPT !.loadPromise = "rejected"]
  /\ loadPc' = "done"
  /\ storeDictionary' = saveToCache(loadFallbackDictionary(dictionary), now)

\* _loadDictionary's catch block: fallback list, then rethrow (the promise
\* returned by load() is rejected).
LoadFailed ==
  /\ dictionary' = [loadFallbackDictionary(dictionary) EXCEPT !.loadPromise = "rejected"]
  /\ loadPc' = "done"
  /\ UNCHANGED storeDictionary

\* The fetch of words.txt settles: a response with ok true, a response with
\* ok false, or a transport error.
FetchSettles(outcome) ==
  /\ loadPc = "fetch"
  /\ IF outcome = "ok"
       THEN /\ loadPc' = "text"
            /\ UNCHANGED <<dictionary, storeDictionary>>
       ELSE LoadFailed
  /\ UNCHANGED <<fetches, cacheWrites>>
  /\ UNCHANGED <<gameState, timerVars, debouncePending, preloadWaiting,
                 startWaiters, storeHighScore, storeStats, message,
                 isInitialized, now, rounds, shuffles, harnessVars>>

\* response.text() settles with the body: _loadFromNetwork builds the set,
\* marks the dictionary loaded and writes the cache.
TextArrives(text) ==
  /\ loadPc = "text"
  /\ LET d == [dictionary EXCEPT !.words = parseWords(text), !.isLoaded = TRUE]
     IN  /\ dictionary' = [d EXCEPT !.loadPromise = "fulfilled"]
         /\ storeDictionary' = saveToCache(d, now)
  /\ cacheWrites' = cacheWrites + 1
  /\ loadPc' = "done"
  /\ UNCHANGED fetches
  /\ UNCHANGED <<gameState, timerVars, debouncePending, preloadWaiting,
                 startWaiters, storeHighScore, storeStats, message,
                 isInitialized, now, rounds, shuffles, harnessVars>>

\* response.text() rejects.
TextFails ==
  /\ loadPc = "text"
  /\ LoadFailed
  /\ UNCHANGED <<fetches, cacheWrites>>
  /\ UNCHANGED <<gameState, timerVars, debouncePending, preloadWaiting,
                 startWaiters, storeHighScore, storeStats, message,
                 isInitialized, now, rounds, shuffles, harnessVars>>

\* Faulty variant of the resumption whose catch block empties the dictionary
\* instead of installing the fallback list.
PreloadResumes_empties ==
  /\ preloadWaiting
  /\ Settled
  /\ preloadWaiting' = FALSE
  /\ dictionary' = IF dictionary.loadPromise = "rejected"
                     THEN [dictionary EXCEPT !.words = {}, !.isLoaded = FALSE]
                     ELSE dictionary
  /\ UNCHANGED <<fetches, cacheWrites>>
  /\ UNCHANGED <<gameState, timerVars, debouncePending, loadPc, startWaiters,
                 storeVars, message, isInitialized, now, rounds, shuffles,
                 harnessVars>>

\* preloadDictionary resumes after its await; on rejection its catch block
\* installs the fallback list again.
PreloadResumes ==
  /\ preloadWaiting
  /\ Settled
  /\ preloadWaiting' = FALSE
  /\ dictionary' = IF dictionary.loadPromise = "rejected"
                     THEN loadFallbackDictionary(dictionary)
                     ELSE dictionary
  /\ UNCHANGED <<fetches, cacheWrites>>
  /\ UNCHANGED <<gameState, timerVars, debouncePending, loadPc, startWaiters,
                 storeVars, message, isInitialized, now, rounds, shuffles,
                 harnessVars>>

(***************************************************************************)
(* MythicRunesGame: rounds                                                 *)
(***************************************************************************)
\* selectCharacter(character), from the two character cards: a character
\* that is not a key of GAME_CONFIG.CHARACTERS is logged and dropped.
SelectCharacter(character) ==
  /\ TaskMayRun
  /\ chosen' = character
  /\ gameState' = IF character \in {"viking", "valkyrie"}
                    THEN [gameState EXCEPT !.selectedCharacter = character]
                    ELSE gameState
  /\ UNCHANGED <<timerVars, loadVars, debouncePending, startWaiters, storeVars,
                 message, isInitialized, now, rounds, shuffles, cfArgs,
                 cfResult, generated, timerHarness, loadHarness, scored,
                 textVars, unresolved, pauseTrace, resetFrom>>

\* Faulty variant of the tail of startGame() that skips gameState.reset().
BeginRound_noReset(t) ==
  /\ LET gs2 == [gameState EXCEPT !.selectedCharacter =
                                     IF @ = "null" THEN "viking" ELSE @]
         gs3 == [gs2 EXCEPT !.currentLetters = generateOn[t]]
     IN  gameState' = GameState_startGame(gs3, now)
  /\ LET tw == GameTimer_start([tm |-> gameTimer, live |-> intervals],
                               DURATION_SECONDS, rounds + 1)
     IN  /\ gameTimer' = tw.tm
         /\ intervals' = tw.live
  /\ message' = "GAME_START"
  /\ rounds' = rounds + 1
  /\ shuffles' = 0

\* startGame() from "Initialize game state" on: reset, default character,
\* generate(), GameState.startGame, GameTimer.start.  t is the tape of
\* Math.random() values generate() consumes.
\* Faulty variant of the tail of startGame() whose reset keeps the selected
\* character.
BeginRound_keepsCharacter(t) ==
  /\ LET gs1 == [GameState_reset EXCEPT
                  !.selectedCharacter = gameState.selectedCharacter]
         gs2 == [gs1 EXCEPT !.selectedCharacter =
                                IF @ = "null" THEN "viking" ELSE @]
         gs3 == [gs2 EXCEPT !.currentLetters = generateOn[t]]
     IN  gameState' = GameState_startGame(gs3, now)
  /\ LET tw == GameTimer_start([tm |-> gameTimer, live |-> intervals],
                               DURATION_SECONDS, rounds + 1)
     IN  /\ gameTimer' = tw.tm
         /\ intervals' = tw.live
  /\ message' = "GAME_START"
  /\ rounds' = rounds + 1
  /\ shuffles' = 0

BeginRound(t) ==
  /\ LET gs1 == GameState_reset
         gs2 == [gs1 EXCEPT !.selectedCharacter =
                                IF @ = "null" THEN "viking" ELSE @]
         gs3 == [gs2 EXCEPT !.currentLetters = generateOn[t]]
     IN  gameState' = GameState_startGame(gs3, now)
  /\ LET tw == GameTimer_start([tm |-> gameTimer, live |-> intervals],
                               DURATION_SECONDS, rounds + 1)
     IN  /\ gameTimer' = tw.tm
         /\ intervals' = tw.live
  /\ message' = "GAME_START"
  /\ rounds' = rounds + 1
  /\ shuffles' = 0

\* startGame() is called.  With the dictionary loaded it runs to its end;
\* otherwise it suspends at `await this.dictionary.load()`, whose promise
\* settles as the loadPromise init() created does.
StartGame(t) ==
  /\ TaskMayRun
  /\ rounds + startWaiters < MaxRounds
  /\ IF dictionary.isLoaded
       THEN /\ BeginRound(t)
            /\ UNCHANGED startWaiters
       ELSE /\ startWaiters' = startWaiters + 1
            /\ message' = "DICTIONARY_LOADING"
            /\ UNCHANGED <<gameState, timerVars, rounds, shuffles>>
  /\ UNCHANGED <<loadVars, debouncePending, storeVars, isInitialized, now,
                 harnessVars>>

\* Faulty variant of the resumption whose catch block returns when load()
\* was rejected, instead of carrying on with the fallback list.
StartGameResumes_stopsOnError(t) ==
  /\ startWaiters > 0
  /\ Settled
  /\ ~preloadWaiting
  /\ startWaiters' = startWaiters - 1
  /\ IF dictionary.loadPromise = "rejected"
       THEN /\ message' = "DICTIONARY_ERROR"
            /\ UNCHANGED <<gameState, timerVars, rounds, shuffles>>
       ELSE BeginRound(t)
  /\ UNCHANGED <<loadVars, debouncePending, storeVars, isInitialized, now,
                 harnessVars>>

\* A suspended startGame() resumes once the load promise has settled, after
\* preloadDictionary (which awaited first).
StartGameResumes(t) ==
  /\ startWaiters > 0
  /\ Settled
  /\ ~preloadWaiting
  /\ startWaiters' = startWaiters - 1
  /\ BeginRound(t)
  /\ UNCHANGED <<loadVars, debouncePending, storeVars, isInitialized, now,
                 harnessVars>>

\* Faulty variant of saveHighScore that stores the score of every round.
saveHighScore_lastScore(stored, gs) == gs.score

\* saveHighScore: the stored scalar after the call.
saveHighScore(stored, gs) ==
  LET currentHigh == IF stored = NULL THEN 0 ELSE stored
  IN  IF gs.score > currentHigh THEN gs.score ELSE stored

\* Math.round(a / b) for a >= 0, b > 0.
RoundDiv(a, b) == (2 * a + b) \div (2 * b)

\* Faulty variant of saveGameStats that starts from the default record
\* whatever is stored.
saveGameStats_fromDefaults(stored, gs) ==
  [kind            |-> "record",
   gamesPlayed     |-> 1,
   totalScore      |-> gs.score,
   totalWordsFound |-> Cardinality(gs.foundWords),
   averageScore    |-> gs.score,
   bestScore       |-> gs.score]

\* saveGameStats: the stored record after the call.
saveGameStats(stored, gs) ==
  LET stats == IF stored.kind = "record" THEN stored
               ELSE [kind |-> "record", gamesPlayed |-> 0, totalScore |-> 0,
                     totalWordsFound |-> 0, averageScore |-> 0, bestScore |-> 0]
      played == stats.gamesPlayed + 1
      total  == stats.totalScore + gs.score
  IN  [kind            |-> "record",
       gamesPlayed     |-> played,
       totalScore      |-> total,
       totalWordsFound |-> stats.totalWordsFound + Cardinality(gs.foundWords),
       averageScore    |-> RoundDiv(total, played),
       bestScore       |-> IF stats.bestScore >= gs.score THEN stats.bestScore
                           ELSE gs.score]

\* MythicRunesGame.endGame, entered with game state gs.
EndGame(gs) ==
  /\ gameState' = GameState_endGame(gs, now)
  /\ message' = "GAME_OVER"
  /\ storeHighScore' = saveHighScore(storeHighScore, gs)
  /\ storeStats' = saveGameStats(storeStats, gs)

\* Faulty variant of the interval callback that completes only once timeLeft
\* has gone below zero.
Tick_pastZero(id) ==
  /\ ~MicrotasksPending
  /\ id \in intervals
  /\ IF gameTimer.isPaused
       THEN UNCHANGED <<gameState, timerVars, message, storeHighScore, storeStats>>
       ELSE LET tm1 == [gameTimer EXCEPT !.timeLeft = @ - 1]
                gs1 == [gameState EXCEPT !.timeLeft = tm1.timeLeft]
            IN  IF tm1.timeLeft < 0
                  THEN LET tw == GameTimer_stop([tm |-> tm1, live |-> intervals])
                       IN  /\ gameTimer' = tw.tm
                           /\ intervals' = tw.live
                           /\ EndGame(gs1)
                  ELSE /\ gameTimer' = tm1
                       /\ gameState' = gs1
                       /\ UNCHANGED <<intervals, message, storeHighScore, storeStats>>
  /\ UNCHANGED <<loadVars, debouncePending, startWaiters, storeDictionary,
                 isInitialized, now, rounds, shuffles, harnessVars>>

\* The callback GameTimer.start gave to setInterval, for live interval id.
Tick(id) ==
  /\ ~MicrotasksPending
  /\ id \in intervals
  /\ IF gameTimer.isPaused
       THEN UNCHANGED <<gameState, timerVars, message, storeHighScore, storeStats>>
       ELSE LET tm1 == [gameTimer EXCEPT !.timeLeft = @ - 1]
                \* onTimerTick
                gs1 == [gameState EXCEPT !.timeLeft = tm1.timeLeft]
            IN  IF tm1.timeLeft <= 0
                  THEN LET tw == GameTimer_stop([tm |-> tm1, live |-> intervals])
                       IN  /\ gameTimer' = tw.tm
                           /\ intervals' = tw.live
                           \* onTimerComplete
                           /\ EndGame(gs1)
                  ELSE /\ gameTimer' = tm1
                       /\ gameState' = gs1
                       /\ UNCHANGED <<intervals, message, storeHighScore, storeStats>>
  /\ UNCHANGED <<loadVars, debouncePending, startWaiters, storeDictionary,
                 isInitialized, now, rounds, shuffles, harnessVars>>

\* Faulty variant of newGame that resets without stopping the timer.
NewGame_noStop ==
  /\ TaskMayRun
  /\ gameState' = GameState_reset
  /\ UNCHANGED <<timerVars, loadVars, debouncePending, startWaiters, storeVars,
                 message, isInitialized, now, rounds, shuffles, harnessVars>>

\* newGame()
NewGame ==
  /\ TaskMayRun
  /\ LET tw == GameTimer_stop([tm |-> gameTimer, live |-> intervals])
     IN  /\ gameTimer' = tw.tm
         /\ intervals' = tw.live
  /\ gameState' = GameState_reset
  /\ UNCHANGED <<loadVars, debouncePending, startWaiters, storeVars, message,
                 isInitialized, now, rounds, shuffles, harnessVars>>

\* pauseGame()
PauseGame ==
  /\ TaskMayRun
  /\ IF gameState.isActive
       THEN /\ gameTimer' = GameTimer_pause(gameTimer)
            /\ message' = "PAUSED"
       ELSE UNCHANGED <<gameTimer, message>>
  /\ UNCHANGED <<gameState, intervals, loadVars, debouncePending, startWaiters,
                 storeVars, isInitialized, now, rounds, shuffles, harnessVars>>

\* resumeGame()
ResumeGame ==
  /\ TaskMayRun
  /\ IF gameState.isActive
       THEN /\ gameTimer' = GameTimer_resume(gameTimer)
            /\ message' = "RESUMED"
       ELSE UNCHANGED <<gameTimer, message>>
  /\ UNCHANGED <<gameState, intervals, loadVars, debouncePending, startWaiters,
                 storeVars, isInitialized, now, rounds, shuffles, harnessVars>>

\* Faulty variant of shuffleLetters without the isActive test.
ShuffleLetters_noActiveCheck(t) ==
  /\ TaskMayRun
  /\ shuffles < MaxShuffles
  /\ gameState' = [gameState EXCEPT !.currentLetters = shuffleArray(@, t, 0)]
  /\ shuffles' = shuffles + 1
  /\ UNCHANGED <<timerVars, loadVars, debouncePending, startWaiters, storeVars,
                 message, isInitialized, now, rounds, harnessVars>>

\* Faulty variant of shuffleLetters that fills every tile with a random one
\* of the current letters instead of permuting them.
ShuffleLetters_resamples(t) ==
  /\ TaskMayRun
  /\ gameState.isActive => shuffles < MaxShuffles
  /\ IF ~gameState.isActive
       THEN UNCHANGED <<gameState, shuffles>>
       ELSE /\ gameState' = [gameState EXCEPT
                               !.currentLetters = shuffleArray_overwrite(@, t, 0)]
            /\ shuffles' = shuffles + 1
  /\ UNCHANGED <<timerVars, loadVars, debouncePending, startWaiters, storeVars,
                 message, isInitialized, now, rounds, harnessVars>>

\* shuffleLetters(); t is the tape of Math.random() values shuffleArray uses.
ShuffleLetters(t) ==
  /\ TaskMayRun
  /\ gameState.isActive => shuffles < MaxShuffles
  /\ IF ~gameState.isActive
       THEN UNCHANGED <<gameState, shuffles>>
       ELSE /\ gameState' = [gameState EXCEPT
                               !.currentLetters = shuffleArray(@, t, 0)]
            /\ shuffles' = shuffles + 1
  /\ UNCHANGED <<timerVars, loadVars, debouncePending, startWaiters, storeVars,
                 message, isInitialized, now, rounds, harnessVars>>

(***************************************************************************)
(* MythicRunesGame: submissions                                            *)
(***************************************************************************)
\* The 'input' listener of the word input: the field holds the sanitized text.
InputListener(typed) == sanitizeInput(typed)

\* What the word input can hold when handleSubmitWord reads it.
InputValues == {InputListener(typed) : typed \in RawInputs}

\* Faulty variant of handleSubmitWord that also lists a repeated accepted word
\* in gameState.invalidWords (the handler does so in the UI list only).
handleSubmitWord_repeatIsInvalid(value) ==
  IF ~gameState.isActive
    THEN /\ message' = "START_NEW_GAME"
         /\ UNCHANGED gameState
    ELSE LET word == sanitizeInput(value)
         IN  IF ~isValidInput(word)
               THEN /\ message' = "WORD_TOO_SHORT"
                    /\ UNCHANGED gameState
             ELSE IF hasFoundWord(gameState, word)
               THEN /\ message' = "WORD_ALREADY_FOUND"
                    /\ gameState' = addInvalidWord(gameState, word)
             ELSE IF hasInvalidWord(gameState, word)
               THEN /\ message' = "WORD_ALREADY_INVALID"
                    /\ UNCHANGED gameState
             ELSE IF ~canFormWord(word, gameState.currentLetters)
               THEN /\ message' = "WORD_CANNOT_FORM"
                    /\ gameState' = addInvalidWord(gameState, word)
             ELSE IF hasWord(dictionary, word)
               THEN /\ message' = "WORD_VALID"
                    /\ gameState' = addFoundWord(gameState, word)
             ELSE /\ message' = "WORD_NOT_IN_DICTIONARY"
                  /\ gameState' = addInvalidWord(gameState, word)

\* Faulty variant of handleSubmitWord that looks the word up in the dictionary
\* before it tests the letters.
handleSubmitWord_dictionaryFirst(value) ==
  IF ~gameState.isActive
    THEN /\ message' = "START_NEW_GAME"
         /\ UNCHANGED gameState
    ELSE LET word == sanitizeInput(value)
         IN  IF ~isValidInput(word)
               THEN /\ message' = "WORD_TOO_SHORT"
                    /\ UNCHANGED gameState
             ELSE IF hasFoundWord(gameState, word)
               THEN /\ message' = "WORD_ALREADY_FOUND"
                    /\ UNCHANGED gameState
             ELSE IF hasInvalidWord(gameState, word)
               THEN /\ message' = "WORD_ALREADY_INVALID"
                    /\ UNCHANGED gameState
             ELSE IF ~hasWord(dictionary, word)
               THEN /\ message' = "WORD_NOT_IN_DICTIONARY"
                    /\ gameState' = addInvalidWord(gameState, word)
             ELSE IF canFormWord(word, gameState.currentLetters)
               THEN /\ message' = "WORD_VALID"
                    /\ gameState' = addFoundWord(gameState, word)
             ELSE /\ message' = "WORD_CANNOT_FORM"
                  /\ gameState' = addInvalidWord(gameState, word)

\* Faulty variant of handleSubmitWord without the isActive test.
handleSubmitWord_noActiveCheck(value) ==
  IF FALSE
    THEN /\ message' = "START_NEW_GAME"
         /\ UNCHANGED gameState
    ELSE LET word == sanitizeInput(value)
         IN  IF ~isValidInput(word)
               THEN /\ message' = "WORD_TOO_SHORT"
                    /\ UNCHANGED gameState
             ELSE IF hasFoundWord(gameState, word)
               THEN /\ message' = "WORD_ALREADY_FOUND"
                    /\ UNCHANGED gameState
             ELSE IF hasInvalidWord(gameState, word)
               THEN /\ message' = "WORD_ALREADY_INVALID"
                    /\ UNCHANGED gameState
             ELSE IF ~canFormWord(word, gameState.currentLetters)
               THEN /\ message' = "WORD_CANNOT_FORM"
                    /\ gameState' = addInvalidWord(gameState, word)
             ELSE IF hasWord(dictionary, word)
               THEN /\ message' = "WORD_VALID"
                    /\ gameState' = addFoundWord(gameState, word)
             ELSE /\ message' = "WORD_NOT_IN_DICTIONARY"
                  /\ gameState' = addInvalidWord(gameState, word)

\* handleSubmitWord(), with `value` in the word input.
handleSubmitWord(value) ==
  IF ~gameState.isActive
    THEN /\ message' = "START_NEW_GAME"
         /\ UNCHANGED gameState
    ELSE LET word == sanitizeInput(value)
         IN  IF ~isValidInput(word)
               THEN /\ message' = "WORD_TOO_SHORT"
                    /\ UNCHANGED gameState
             ELSE IF hasFoundWord(gameState, word)
               THEN /\ message' = "WORD_ALREADY_FOUND"
                    /\ UNCHANGED gameState
             ELSE IF hasInvalidWord(gameState, word)
               THEN /\ message' = "WORD_ALREADY_INVALID"
                    /\ UNCHANGED gameState
             ELSE IF ~canFormWord(word, gameState.currentLetters)
               THEN /\ message' = "WORD_CANNOT_FORM"
                    /\ gameState' = addInvalidWord(gameState, word)
             ELSE IF hasWord(dictionary, word)
               THEN /\ message' = "WORD_VALID"
                    /\ gameState' = addFoundWord(gameState, word)
             ELSE /\ message' = "WORD_NOT_IN_DICTIONARY"
                  /\ gameState' = addInvalidWord(gameState, word)

\* A click on the submit button or Enter in the word input: Utils.debounce
\* clears the armed timeout and arms a new one.
SubmitRequested ==
  /\ TaskMayRun
  /\ debouncePending' = TRUE
  /\ UNCHANGED <<gameState, timerVars, loadVars, startWaiters, storeVars,
                 message, isInitialized, now, rounds, shuffles, harnessVars>>

\* The debounce timeout fires and calls handleSubmitWord(); the word input
\* holds what the player typed last.
SubmitFires(value) ==
  /\ ~MicrotasksPending
  /\ debouncePending
  /\ debouncePending' = FALSE
  /\ handleSubmitWord(value)
  /\ UNCHANGED <<timerVars, loadVars, startWaiters, storeVars, isInitialized,
                 now, rounds, shuffles, harnessVars>>

\* Time passes.
ClockAdvances ==
  /\ now < StartTime + MaxElapsed
  /\ now' = now + 1
  /\ UNCHANGED <<gameState, timerVars, loadVars, debouncePending, startWaiters,
                 storeVars, message, isInitialized, rounds, shuffles, harnessVars>>

Characters == {"viking", "valkyrie"}

Next ==
  \/ AppInit
  \/ \E outcome \in {"ok", "not_ok", "error"} : FetchSettles(outcome)
  \/ \E text \in NetworkTexts : TextArrives(text)
  \/ TextFails
  \/ PreloadResumes
  \/ \E t \in Tapes : StartGame(t)
  \/ \E t \in Tapes : StartGameResumes(t)
  \/ \E id \in intervals : Tick(id)
  \/ NewGame
  \/ PauseGame
  \/ ResumeGame
  \/ \E t \in Tapes : ShuffleLetters(t)
  \/ SubmitRequested
  \/ \E value \in InputValues : SubmitFires(value)

\* The application.  Date.now() stays at StartTime: the handlers below only
\* store it (the timestamps) and compare it with the cache timestamp.
Spec == Init /\ [][Next]_vars

\* The application under the scheduling of the browser: the callback of a
\* live interval keeps being called, and the continuations of a settled
\* promise are run.  What the player does (start, new game, pause, resume,
\* shuffle, submit) is under no obligation.
SpecFair ==
  /\ Init
  /\ [][Next]_vars
  /\ WF_vars(\E id \in intervals : Tick(id))
  /\ WF_vars(PreloadResumes)
  /\ WF_vars(\E t \in Tapes : StartGameResumes(t))

(***************************************************************************)
(* The GameState class on its own: its public methods called in any order  *)
(* while time passes.                                                      *)
(***************************************************************************)
\* Words of at least MIN_WORD_LENGTH letters among the input values.
PlayableWords == {w \in InputValues : isValidInput(w)}

GSFrame ==
  UNCHANGED <<timerVars, loadVars, debouncePending, startWaiters, storeVars,
              message, isInitialized, rounds, shuffles, harnessVars>>

\* The phase of the lifecycle a game state is in.
Phase(gs) ==
  IF gs.isActive THEN "active"
  ELSE IF gs.gameEndTime # NULL THEN "ended" ELSE "idle"

\* Faulty variant of reset() that leaves the end timestamp in place.
GS_reset_keepsEndTime ==
  /\ gameState' = [GameState_reset EXCEPT !.gameEndTime = gameState.gameEndTime]
  /\ resetFrom' = Phase(gameState)
  /\ UNCHANGED <<now, timerVars, loadVars, debouncePending, startWaiters,
                 storeVars, message, isInitialized, rounds, shuffles, cfArgs,
                 cfResult, generated, timerHarness, loadHarness, scored,
                 textVars, eventVars>>

\* gameState.reset()
GS_reset ==
  /\ gameState' = GameState_reset
  /\ resetFrom' = Phase(gameState)
  /\ UNCHANGED <<now, timerVars, loadVars, debouncePending, startWaiters,
                 storeVars, message, isInitialized, rounds, shuffles, cfArgs,
                 cfResult, generated, timerHarness, loadHarness, scored,
                 textVars, eventVars>>

\* gameState.startGame()
GS_startGame ==
  gameState' = GameState_startGame(gameState, now) /\ UNCHANGED now /\ GSFrame

\* gameState.endGame()
GS_endGame ==
  gameState' = GameState_endGame(gameState, now) /\ UNCHANGED now /\ GSFrame

\* gameState.addFoundWord(word), for a word not added before
GS_addFoundWord(word) ==
  /\ ~hasFoundWord(gameState, word)
  /\ gameState' = addFoundWord(gameState, word)
  /\ UNCHANGED now /\ GSFrame

\* gameState.addInvalidWord(word)
GS_addInvalidWord(word) ==
  /\ gameState' = addInvalidWord(gameState, word)
  /\ UNCHANGED now /\ GSFrame

NextGameState ==
  \/ GS_reset
  \/ GS_startGame
  \/ GS_endGame
  \/ \E word \in PlayableWords : GS_addFoundWord(word)
  \/ \E word \in PlayableWords : GS_addInvalidWord(word)
  \/ ClockAdvances

SpecGameState == Init /\ [][NextGameState]_vars

(***************************************************************************)
(* LetterGenerator.canFormWord called directly, on every word and pool over *)
(* a small alphabet in both cases.                                         *)
(***************************************************************************)
MaxCanFormLen == 3

CanFormChars == {"a", "A", "b", "B"}

RECURSIVE SeqsUpTo(_, _)
SeqsUpTo(S, n) ==
  IF n = 0 THEN {<<>>}
  ELSE LET shorter == SeqsUpTo(S, n - 1)
       IN  shorter \cup {Append(s, c) : s \in {x \in shorter : Len(x) = n - 1}, c \in S}

CanFormInputs == SeqsUpTo(CanFormChars, MaxCanFormLen)

InitCanForm ==
  /\ InitObjects
  /\ storeDictionary = [kind |-> "absent"]
  /\ storeHighScore = NULL
  /\ storeStats = [kind |-> "absent"]
  /\ cfArgs \in [word : CanFormInputs, pool : CanFormInputs]
  /\ cfResult = "none"
  /\ generated = <<>>
  /\ InitTimerHarness
  /\ InitLoadHarness
  /\ InitDetail

\* LetterGenerator.canFormWord(cfArgs.word, cfArgs.pool) is called and returns.
CanFormCall ==
  /\ cfResult = "none"
  /\ cfResult' = IF canFormWord(cfArgs.word, cfArgs.pool) THEN "true" ELSE "false"
  /\ UNCHANGED <<gameState, timerVars, loadVars, debouncePending, startWaiters,
                 storeVars, message, isInitialized, now, rounds, shuffles,
                 cfArgs, generated, timerHarness, loadHarness, detailVars>>

SpecCanForm == InitCanForm /\ [][CanFormCall]_vars

(***************************************************************************)
(* LetterGenerator.generate called directly, on many tapes of              *)
(* Math.random() values.                                                   *)
(***************************************************************************)
MaxGenerateTape == 150

InitGenerate ==
  /\ InitObjects
  /\ storeDictionary = [kind |-> "absent"]
  /\ storeHighScore = NULL
  /\ storeStats = [kind |-> "absent"]
  /\ InitHarness

\* LetterGenerator.generate() is called and returns.
GenerateCall(t) ==
  /\ generated' = generate(t)
  /\ UNCHANGED <<gameState, timerVars, loadVars, debouncePending, startWaiters,
                 storeVars, message, isInitialized, now, rounds, shuffles,
                 cfArgs, cfResult, timerHarness, loadHarness, detailVars>>

NextGenerate == \E t \in 0..(MaxGenerateTape - 1) : GenerateCall(t)

SpecGenerate == InitGenerate /\ [][NextGenerate]_vars

(***************************************************************************)
(* The GameTimer class on its own: start (with any duration from 0 up),    *)
(* pause, resume and stop called in any order while the interval fires.    *)
(* onTick and onComplete are callbacks that only record their calls.       *)
(***************************************************************************)
MaxDuration == 5

MaxStarts == 2

MaxFirings == 6

\* Faulty variant of the interval callback that ignores isPaused.
IntervalCallback_ignoresPause(tw) ==
  LET tm1 == [tw.tm EXCEPT !.timeLeft = @ - 1]
  IN  IF tm1.timeLeft <= 0
        THEN LET st == GameTimer_stop([tm |-> tm1, live |-> tw.live])
             IN  [tm |-> st.tm, live |-> st.live,
                  ticked |-> <<tm1.timeLeft>>, completed |-> 1]
        ELSE [tm |-> tm1, live |-> tw.live,
              ticked |-> <<tm1.timeLeft>>, completed |-> 0]

\* The callback GameTimer.start gives to setInterval, run on timer world tw:
\* the timer world it leaves, the values it passed to onTick and the number
\* of onComplete calls it made.
IntervalCallback(tw) ==
  IF tw.tm.isPaused
    THEN [tm |-> tw.tm, live |-> tw.live, ticked |-> <<>>, completed |-> 0]
    ELSE LET tm1 == [tw.tm EXCEPT !.timeLeft = @ - 1]
         IN  IF tm1.timeLeft <= 0
               THEN LET st == GameTimer_stop([tm |-> tm1, live |-> tw.live])
                    IN  [tm |-> st.tm, live |-> st.live,
                         ticked |-> <<tm1.timeLeft>>, completed |-> 1]
               ELSE [tm |-> tm1, live |-> tw.live,
                     ticked |-> <<tm1.timeLeft>>, completed |-> 0]

GTFrame ==
  UNCHANGED <<gameState, loadVars, debouncePending, startWaiters, storeVars,
              message, isInitialized, now, rounds, shuffles, cfArgs, cfResult,
              generated, loadHarness, detailVars>>

\* gameTimer.start(duration)
GT_start(duration) ==
  /\ starts < MaxStarts
  /\ LET tw == GameTimer_start([tm |-> gameTimer, live |-> intervals],
                               duration, starts + 1)
     IN  /\ gameTimer' = tw.tm
         /\ intervals' = tw.live
  /\ starts' = starts + 1
  /\ firings' = 0
  /\ onTickCalls' = <<>>
  /\ onCompleteCalls' = 0
  /\ GTFrame

\* The live interval id fires.
GT_tick(id) ==
  /\ id \in intervals
  /\ firings < MaxFirings
  /\ LET r == IntervalCallback([tm |-> gameTimer, live |-> intervals])
     IN  /\ gameTimer' = r.tm
         /\ intervals' = r.live
         /\ onTickCalls' = onTickCalls \o r.ticked
         /\ onCompleteCalls' = onCompleteCalls + r.completed
  /\ firings' = firings + 1
  /\ UNCHANGED starts
  /\ GTFrame

\* gameTimer.pause()
GT_pause ==
  /\ gameTimer' = GameTimer_pause(gameTimer)
  /\ UNCHANGED <<intervals, timerHarness>>
  /\ GTFrame

\* gameTimer.resume()
GT_resume ==
  /\ gameTimer' = GameTimer_resume(gameTimer)
  /\ UNCHANGED <<intervals, timerHarness>>
  /\ GTFrame

\* gameTimer.stop()
GT_stop ==
  /\ LET tw == GameTimer_stop([tm |-> gameTimer, live |-> intervals])
     IN  /\ gameTimer' = tw.tm
         /\ intervals' = tw.live
  /\ UNCHANGED timerHarness
  /\ GTFrame

NextGameTimer ==
  \/ \E duration \in 0..MaxDuration : GT_start(duration)
  \/ \E id \in intervals : GT_tick(id)
  \/ GT_pause
  \/ GT_resume
  \/ GT_stop

SpecGameTimer == Init /\ [][NextGameTimer]_vars

(***************************************************************************)
(* The Dictionary class on its own: load() called any number of times,     *)
(* before and after the load settles, by callers that await the promise    *)
(* they get and then look at the dictionary.                               *)
(***************************************************************************)
MaxLoadCalls == 4

\* Faulty variant of load() that does not look at this.loadPromise and runs
\* _loadDictionary on every call.
DictionaryLoad_noMemo ==
  LET cached == loadFromCache(storeDictionary, now)
  IN  /\ storeDictionary' = cached.store
      /\ IF cached.hit
           THEN /\ dictionary' = [words |-> cached.words, isLoaded |-> TRUE,
                                  loadPromise |-> "fulfilled"]
                /\ loadPc' = "done"
                /\ UNCHANGED fetches
           ELSE /\ dictionary' = [dictionary EXCEPT !.loadPromise = "pending"]
                /\ loadPc' = "fetch"
                /\ fetches' = fetches + 1

\* Faulty variant of load() that forgets a rejected promise and runs
\* _loadDictionary again.
DictionaryLoad_retriesAfterFailure ==
  IF dictionary.loadPromise \notin {"null", "rejected"}
    THEN UNCHANGED <<dictionary, loadPc, storeDictionary, fetches>>
    ELSE LET cached == loadFromCache(storeDictionary, now)
         IN  /\ storeDictionary' = cached.store
             /\ IF cached.hit
                  THEN /\ dictionary' = [words |-> cached.words, isLoaded |-> TRUE,
                                         loadPromise |-> "fulfilled"]
                       /\ loadPc' = "done"
                       /\ UNCHANGED fetches
                  ELSE /\ dictionary' = [dictionary EXCEPT !.loadPromise = "pending"]
                       /\ loadPc' = "fetch"
                       /\ fetches' = fetches + 1

\* Dictionary.load(): with loadPromise set it starts nothing; otherwise it
\* runs _loadDictionary up to its first await (the cache check and, on a
\* miss, the fetch request) and keeps the promise in loadPromise.
DictionaryLoad ==
  IF dictionary.loadPromise # "null"
    THEN UNCHANGED <<dictionary, loadPc, storeDictionary, fetches>>
    ELSE LET cached == loadFromCache(storeDictionary, now)
         IN  /\ storeDictionary' = cached.store
             /\ IF cached.hit
                  THEN /\ dictionary' = [words |-> cached.words, isLoaded |-> TRUE,
                                         loadPromise |-> "fulfilled"]
                       /\ loadPc' = "done"
                       /\ UNCHANGED fetches
                  ELSE /\ dictionary' = [dictionary EXCEPT !.loadPromise = "pending"]
                       /\ loadPc' = "fetch"
                       /\ fetches' = fetches + 1

\* A caller calls dictionary.load().  load is an async function: each call
\* returns a promise of its own (numbered from 1 here), resolved with
\* this.loadPromise, so it settles as loadPromise does.
D_load ==
  /\ Len(loadReturned) < MaxLoadCalls
  /\ DictionaryLoad
  /\ loadReturned' = Append(loadReturned, Len(loadReturned) + 1)
  /\ UNCHANGED <<gameState, timerVars, preloadWaiting, cacheWrites,
                 debouncePending, startWaiters, storeHighScore, storeStats,
                 message, isInitialized, now, rounds, shuffles, cfArgs,
                 cfResult, generated, timerHarness, observed, detailVars>>

\* The await of the next caller resumes, the promise having settled: the
\* caller notes how it settled and what the dictionary holds.
D_resume ==
  /\ Settled
  /\ Len(observed) < Len(loadReturned)
  /\ observed' = Append(observed, [outcome  |-> dictionary.loadPromise,
                                    isLoaded |-> dictionary.isLoaded,
                                    words    |-> dictionary.words])
  /\ UNCHANGED <<gameState, timerVars, loadVars, debouncePending, startWaiters,
                 storeVars, message, isInitialized, now, rounds, shuffles,
                 cfArgs, cfResult, generated, timerHarness, loadReturned,
                 detailVars>>

NextDictionary ==
  \/ D_load
  \/ D_resume
  \/ \E outcome \in {"ok", "not_ok", "error"} : FetchSettles(outcome)
  \/ \E text \in NetworkTexts : TextArrives(text)
  \/ TextFails
  \/ ClockAdvances

SpecDictionary == Init /\ [][NextDictionary]_vars

(***************************************************************************)
(* GameState.calculateWordScore called directly on words of every length.  *)
(***************************************************************************)
MaxScoreLen == 10

MaxScoreCalls == 2

\* One word of each length from 0 to MaxScoreLen.
ScoreWords == {[i \in 1..n |-> "a"] : n \in 0..MaxScoreLen}

\* gameState.calculateWordScore(word) is called and returns.
ScoreCall(word) ==
  /\ Len(scored) < MaxScoreCalls
  /\ scored' = Append(scored, [word |-> word, points |-> calculateWordScore(word)])
  /\ UNCHANGED <<gameState, timerVars, loadVars, debouncePending, startWaiters,
                 storeVars, message, isInitialized, now, rounds, shuffles,
                 cfArgs, cfResult, generated, timerHarness, loadHarness,
                 textVars, eventVars, resetFrom>>

NextScore == \E word \in ScoreWords : ScoreCall(word)

SpecScore == InitGenerate /\ [][NextScore]_vars

(***************************************************************************)
(* The storage layer: localStorage holds texts; Storage.set writes         *)
(* JSON.stringify(value) and Storage.get reads JSON.parse(text).  Values   *)
(* are tagged by their JavaScript type.                                    *)
(***************************************************************************)
JNull == [t |-> "null"]

JUndefined == [t |-> "undefined"]

JNaN == [t |-> "NaN"]

JNum(n) == [t |-> "number", v |-> n]

JBool(b) == [t |-> "boolean", v |-> b]

JStr(s) == [t |-> "string", v |-> s]

JArr(elements) == [t |-> "array", v |-> elements]

\* An object: its property names in insertion order, and their values.
JObj(keys, values) == [t |-> "object", k |-> keys, v |-> values]

Digits == <<"0", "1", "2", "3", "4", "5", "6", "7", "8", "9">>

\* The decimal text of a natural number.
RECURSIVE NatToText(_)
NatToText(n) ==
  IF n < 10 THEN <<Digits[n + 1]>>
  ELSE NatToText(n \div 10) \o <<Digits[(n % 10) + 1]>>

\* The decimal text of an integer.
IntToText(n) == IF n < 0 THEN <<"-">> \o NatToText(0 - n) ELSE NatToText(n)

DigitValue(c) == (CHOOSE i \in DOMAIN Digits : Digits[i] = c) - 1

\* The natural number a text of digits denotes.
RECURSIVE TextToNat(_)
TextToNat(s) ==
  IF Len(s) = 1 THEN DigitValue(s[1])
  ELSE 10 * TextToNat(SubSeq(s, 1, Len(s) - 1)) + DigitValue(s[Len(s)])

\* Faulty variant of the string escaping that copies every character as it is.
EscapeChar_none(c) == <<c>>

\* JSON.stringify of one character of a string.
EscapeChar(c) ==
  CASE c = "\"" -> <<"\\", "\"">>
    [] c = "\\" -> <<"\\", "\\">>
    [] c = "\n" -> <<"\\", "n">>
    [] c = "\r" -> <<"\\", "r">>
    [] c = "\t" -> <<"\\", "t">>
    [] OTHER    -> <<c>>

\* JSON.stringify of a string: quoted, its characters escaped.
RECURSIVE EscapeAll(_)
EscapeAll(s) ==
  IF s = <<>> THEN <<>> ELSE EscapeChar(Head(s)) \o EscapeAll(Tail(s))

Quote(s) == <<"\"">> \o EscapeAll(s) \o <<"\"">>

\* Array.prototype.join(",") of texts.
RECURSIVE JoinComma(_)
JoinComma(texts) ==
  IF texts = <<>> THEN <<>>
  ELSE IF Len(texts) = 1 THEN texts[1]
  ELSE texts[1] \o <<",">> \o JoinComma(Tail(texts))

\* Keep the elements of a sequence whose index satisfies keep.
RECURSIVE SelectIndexed(_, _, _)
SelectIndexed(seq, keep, i) ==
  IF i > Len(seq) THEN <<>>
  ELSE (IF keep[i] THEN <<seq[i]>> ELSE <<>>) \o SelectIndexed(seq, keep, i + 1)

\* JSON.stringify(value).  NaN is written as null, an undefined array element
\* as null, and a property whose value is undefined is left out.
RECURSIVE JSON_stringify(_)
JSON_stringify(x) ==
  CASE x.t = "null"    -> <<"n", "u", "l", "l">>
    [] x.t = "NaN"     -> <<"n", "u", "l", "l">>
    [] x.t = "number"  -> IntToText(x.v)
    [] x.t = "boolean" -> IF x.v THEN <<"t", "r", "u", "e">>
                          ELSE <<"f", "a", "l", "s", "e">>
    [] x.t = "string"  -> Quote(x.v)
    [] x.t = "array"   ->
         <<"[">>
           \o JoinComma([i \in DOMAIN x.v |->
                           IF x.v[i].t = "undefined" THEN <<"n", "u", "l", "l">>
                           ELSE JSON_stringify(x.v[i])])
           \o <<"]">>
    [] x.t = "object"  ->
         LET members == [i \in DOMAIN x.k |->
                           IF x.v[i].t = "undefined" THEN <<>>
                           ELSE Quote(x.k[i]) \o <<":">> \o JSON_stringify(x.v[i])]
             kept    == [i \in DOMAIN x.k |-> x.v[i].t # "undefined"]
         IN  <<"{">> \o JoinComma(SelectIndexed(members, kept, 1)) \o <<"}">>

\* JSON whitespace.
JsonWhitespace == {" ", "\t", "\n", "\r"}

\* The first position from i on that holds no whitespace.
RECURSIVE SkipWs(_, _)
SkipWs(s, i) ==
  IF i <= Len(s) /\ s[i] \in JsonWhitespace THEN SkipWs(s, i + 1) ELSE i

\* The text s has the characters of lit from position i on.
HasAt(s, i, lit) ==
  /\ i + Len(lit) - 1 <= Len(s)
  /\ \A j \in DOMAIN lit : s[i + j - 1] = lit[j]

\* The end of the run of digits that starts at position i.
RECURSIVE DigitsEnd(_, _)
DigitsEnd(s, i) ==
  IF i <= Len(s) /\ s[i] \in Range(Digits) THEN DigitsEnd(s, i + 1) ELSE i

\* A parse that failed (JSON.parse throws SyntaxError).
ParseFail == [ok |-> FALSE, val |-> JNull, next |-> 0]

ParseOk(value, next) == [ok |-> TRUE, val |-> value, next |-> next]

\* Define property key of an object under construction: a repeated name keeps
\* its place and takes the later value.
SetMember(keys, values, key, value) ==
  IF \E i \in DOMAIN keys : keys[i] = key
    THEN [k |-> keys,
          v |-> [i \in DOMAIN values |-> IF keys[i] = key THEN value ELSE values[i]]]
    ELSE [k |-> Append(keys, key), v |-> Append(values, value)]

\* The character a JSON escape \c stands for.
UnescapeChar(c) ==
  CASE c = "\"" -> "\""
    [] c = "\\" -> "\\"
    [] c = "/"  -> "/"
    [] c = "n"  -> "\n"
    [] c = "r"  -> "\r"
    [] c = "t"  -> "\t"

\* The characters of a JSON string from position i (after the opening quote)
\* to its closing quote.  The escapes \b, \f and \uXXXX, which no text explored
\* here holds, are not read.
RECURSIVE ParseStringBody(_, _, _)
ParseStringBody(s, i, acc) ==
  IF i > Len(s) THEN ParseFail
  ELSE IF s[i] = "\"" THEN ParseOk(acc, i + 1)
  ELSE IF s[i] \in {"\n", "\r", "\t"} THEN ParseFail
  ELSE IF s[i] = "\\" /\ (i + 1 > Len(s) \/ s[i + 1] \notin {"\"", "\\", "/", "n", "r", "t"})
    THEN ParseFail
  ELSE IF s[i] = "\\" THEN ParseStringBody(s, i + 2, Append(acc, UnescapeChar(s[i + 1])))
  ELSE ParseStringBody(s, i + 1, Append(acc, s[i]))

\* A JSON integer at position i (fractions and exponents, which no text
\* explored here holds, are not read).
ParseNumber(s, i) ==
  LET neg   == s[i] = "-"
      first == IF neg THEN i + 1 ELSE i
      last  == DigitsEnd(s, first)
  IN  IF last = first THEN ParseFail
      ELSE IF s[first] = "0" /\ last > first + 1 THEN ParseFail
      ELSE LET n == TextToNat(SubSeq(s, first, last - 1))
           IN  ParseOk(JNum(IF neg THEN 0 - n ELSE n), last)

RECURSIVE ParseValue(_, _), ParseElements(_, _, _), ParseMembers(_, _, _, _)
\* The JSON value that starts at position i0 (after whitespace).
ParseValue(s, i0) ==
  LET i == SkipWs(s, i0)
  IN  IF i > Len(s) THEN ParseFail
      ELSE IF HasAt(s, i, <<"n", "u", "l", "l">>) THEN ParseOk(JNull, i + 4)
      ELSE IF HasAt(s, i, <<"t", "r", "u", "e">>) THEN ParseOk(JBool(TRUE), i + 4)
      ELSE IF HasAt(s, i, <<"f", "a", "l", "s", "e">>) THEN ParseOk(JBool(FALSE), i + 5)
      ELSE IF s[i] = "\""
        THEN LET r == ParseStringBody(s, i + 1, <<>>)
             IN  IF r.ok THEN ParseOk(JStr(r.val), r.next) ELSE ParseFail
      ELSE IF s[i] = "["
        THEN LET j == SkipWs(s, i + 1)
             IN  IF j <= Len(s) /\ s[j] = "]" THEN ParseOk(JArr(<<>>), j + 1)
                 ELSE ParseElements(s, i + 1, <<>>)
      ELSE IF s[i] = "{"
        THEN LET j == SkipWs(s, i + 1)
             IN  IF j <= Len(s) /\ s[j] = "}" THEN ParseOk(JObj(<<>>, <<>>), j + 1)
                 ELSE ParseMembers(s, i + 1, <<>>, <<>>)
      ELSE IF s[i] = "-" \/ s[i] \in Range(Digits) THEN ParseNumber(s, i)
      ELSE ParseFail

\* The elements of an array from position i to its closing bracket.
ParseElements(s, i, acc) ==
  LET r == ParseValue(s, i)
  IN  IF ~r.ok THEN ParseFail
      ELSE LET j == SkipWs(s, r.next)
           IN  IF j > Len(s) THEN ParseFail
               ELSE IF s[j] = "," THEN ParseElements(s, j + 1, Append(acc, r.val))
               ELSE IF s[j] = "]" THEN ParseOk(JArr(Append(acc, r.val)), j + 1)
               ELSE ParseFail

\* The members of an object from position i to its closing brace.
ParseMembers(s, i, keys, values) ==
  LET j == SkipWs(s, i)
  IN  IF j > Len(s) \/ s[j] # "\"" THEN ParseFail
      ELSE LET key == ParseStringBody(s, j + 1, <<>>)
           IN  IF ~key.ok THEN ParseFail
               ELSE LET c == SkipWs(s, key.next)
                    IN  IF c > Len(s) \/ s[c] # ":" THEN ParseFail
                        ELSE LET r == ParseValue(s, c + 1)
                             IN  IF ~r.ok THEN ParseFail
                                 ELSE LET m == SetMember(keys, values, key.val, r.val)
                                          e == SkipWs(s, r.next)
                                      IN  IF e > Len(s) THEN ParseFail
                                          ELSE IF s[e] = ","
                                            THEN ParseMembers(s, e + 1, m.k, m.v)
                                          ELSE IF s[e] = "}"
                                            THEN ParseOk(JObj(m.k, m.v), e + 1)
                                          ELSE ParseFail

\* JSON.parse(text): the value, or ok false where it throws SyntaxError.
JSON_parse(text) ==
  LET r == ParseValue(text, 1)
  IN  IF r.ok /\ SkipWs(text, r.next) > Len(text) THEN r ELSE ParseFail

\* Storage.get(key, defaultValue) with item under the key.
Storage_get(item, defaultValue) ==
  IF item.present /\ item.text # <<>>
    THEN LET r == JSON_parse(item.text)
         IN  IF r.ok THEN r.val ELSE defaultValue
    ELSE defaultValue

\* Storage.set(key, value): the item under the key afterwards.
Storage_set(value) == [present |-> TRUE, text |-> JSON_stringify(value)]

\* ToBoolean
Truthy(x) ==
  CASE x.t \in {"null", "undefined", "NaN"} -> FALSE
    [] x.t = "number"  -> x.v # 0
    [] x.t = "boolean" -> x.v
    [] x.t = "string"  -> x.v # <<>>
    [] x.t \in {"array", "object"} -> TRUE

\* x[key] for a value other than null and undefined, key being one of the
\* names the game reads (none of which a string, number, boolean or array has).
Prop(x, key) ==
  IF x.t = "object" /\ \E i \in DOMAIN x.k : x.k[i] = key
    THEN x.v[CHOOSE i \in DOMAIN x.k : x.k[i] = key]
    ELSE JUndefined

\* x[key] = value for an object x.
SetProp(x, key, value) ==
  LET m == SetMember(x.k, x.v, key, value) IN JObj(m.k, m.v)

\* ToNumber of the values the stored records hold here: numbers, null,
\* undefined and NaN.
ToNumber(x) ==
  CASE x.t = "number"    -> x
    [] x.t = "null"      -> JNum(0)
    [] x.t = "undefined" -> JNaN
    [] x.t = "NaN"       -> JNaN

\* a + b, a and b as for ToNumber
JsAdd(a, b) ==
  LET x == ToNumber(a)
      y == ToNumber(b)
  IN  IF x.t = "NaN" \/ y.t = "NaN" THEN JNaN ELSE JNum(x.v + y.v)

\* Math.round(a / b) for numbers a >= 0 and b > 0, NaN if either is NaN
JsRoundDiv(a, b) ==
  IF a.t = "NaN" \/ b.t = "NaN" THEN JNaN ELSE JNum(RoundDiv(a.v, b.v))

\* Math.max(a, b)
JsMax(a, b) ==
  LET x == ToNumber(a)
      y == ToNumber(b)
  IN  IF x.t = "NaN" \/ y.t = "NaN" THEN JNaN
      ELSE IF x.v >= y.v THEN x ELSE y

\* The record _saveToCache builds at Date.now() = t.
CacheData(d, t) ==
  JObj(<<<<"w","o","r","d","s">>, <<"t","i","m","e","s","t","a","m","p">>>>,
       <<JArr([i \in DOMAIN ArrayFrom(d.words) |-> JStr(ArrayFrom(d.words)[i])]),
         JNum(t)>>)

\* The body of Dictionary._loadFromCache at Date.now() = t once Storage.get
\* has returned cached for the item under the dictionary key: the Set to
\* adopt (hit) or null, and the item it leaves.  new Set(words) takes the
\* elements of an array of strings and the characters of a string, and throws
\* TypeError, which the catch block swallows, on a number, a boolean or an
\* object.
adoptCached(cached, words, stamp, item, t) ==
  IF Truthy(cached) /\ Truthy(words) /\ Truthy(stamp)
    THEN IF stamp.t = "number" /\ t - stamp.v < DICTIONARY_MAX_AGE
           THEN CASE words.t = "array" ->
                       [hit |-> TRUE, item |-> item,
                        words |-> {words.v[i].v : i \in DOMAIN words.v}]
                  [] words.t = "string" ->
                       [hit |-> TRUE, item |-> item,
                        words |-> {<<words.v[i]>> : i \in DOMAIN words.v}]
                  [] OTHER -> [hit |-> FALSE, words |-> {}, item |-> item]
           ELSE [hit |-> FALSE, words |-> {}, item |-> NoItem]
    ELSE [hit |-> FALSE, words |-> {}, item |-> item]

\* cached.words and cached.timestamp of what Storage.get returned.
readCached(cached, item, t) ==
  adoptCached(cached, Prop(cached, <<"w","o","r","d","s">>),
              Prop(cached, <<"t","i","m","e","s","t","a","m","p">>), item, t)

\* Dictionary._loadFromCache at Date.now() = t with item under the
\* dictionary key.
loadFromCacheText(item, t) == readCached(Storage_get(item, JNull), item, t)

\* The default record of saveGameStats.
DefaultStats ==
  JObj(<<<<"g","a","m","e","s","P","l","a","y","e","d">>,
         <<"t","o","t","a","l","S","c","o","r","e">>,
         <<"t","o","t","a","l","W","o","r","d","s","F","o","u","n","d">>,
         <<"a","v","e","r","a","g","e","S","c","o","r","e">>,
         <<"b","e","s","t","S","c","o","r","e">>>>,
       <<JNum(0), JNum(0), JNum(0), JNum(0), JNum(0)>>)

\* stats[key] += n
addTo(stats, key, n) == SetProp(stats, key, JsAdd(Prop(stats, key), n))

\* stats.averageScore = Math.round(stats.totalScore / stats.gamesPlayed)
withAverage(stats) ==
  SetProp(stats, <<"a","v","e","r","a","g","e","S","c","o","r","e">>,
          JsRoundDiv(Prop(stats, <<"t","o","t","a","l","S","c","o","r","e">>),
                     Prop(stats, <<"g","a","m","e","s","P","l","a","y","e","d">>)))

\* stats.bestScore = Math.max(stats.bestScore, score)
withBest(stats, score) ==
  SetProp(stats, <<"b","e","s","t","S","c","o","r","e">>,
          JsMax(Prop(stats, <<"b","e","s","t","S","c","o","r","e">>), score))

\* The updates of saveGameStats once Storage.get has returned stats, for a
\* round of the given score and number of words found: the exception thrown,
\* if any, and the item left.  Reading a property of null throws TypeError,
\* and so does, in the strict code of a class body, assigning a property of a
\* number, string or boolean; properties added to an array are not written
\* by JSON.stringify.
updateStats(stats, item, score, found) ==
  CASE stats.t \in {"null", "number", "string", "boolean"} ->
         [thrown |-> "TypeError", item |-> item]
    [] stats.t = "array" ->
         [thrown |-> "none", item |-> Storage_set(stats)]
    [] stats.t = "object" ->
         [thrown |-> "none",
          item |-> Storage_set(
            withBest(
              withAverage(
                addTo(addTo(addTo(stats,
                                  <<"g","a","m","e","s","P","l","a","y","e","d">>,
                                  JNum(1)),
                            <<"t","o","t","a","l","S","c","o","r","e">>, score),
                      <<"t","o","t","a","l","W","o","r","d","s","F","o","u","n","d">>,
                      found)),
              score))]

\* saveGameStats with item under the stats key, for a round that ended in
\* game state gs.
saveGameStatsText(item, gs) ==
  updateStats(Storage_get(item, DefaultStats), item,
              JNum(gs.score), JNum(Cardinality(gs.foundWords)))

(***************************************************************************)
(* Sessions over one localStorage: a Dictionary loads, the page is loaded  *)
(* again and a new Dictionary loads, rounds end and save their statistics, *)
(* while time passes.  What earlier sessions or other code left under the  *)
(* two keys may be of any shape.                                           *)
(***************************************************************************)
MaxTextFetches == 2

\* A timestamp that is DICTIONARY_MAX_AGE - 1 old when the first session starts.
RecentStamp == IntToText(StartTime - DICTIONARY_MAX_AGE + 1)

\* Texts under the dictionary key: null, a text that is not JSON, records
\* without a timestamp or without words, records whose words are a number or
\* a string, and a record as _saveToCache writes it.
InitialDictionaryTexts == {
    <<"n", "u", "l", "l">>,
    <<"{", "o", "o", "p", "s">>,
    <<"{", "\"", "w", "o", "r", "d", "s", "\"", ":", "[", "\"", "c", "a", "t", "\"", "]", "}">>,
    <<"{", "\"", "w", "o", "r", "d", "s", "\"", ":", "7", ",", "\"", "t", "i", "m", "e", "s", "t", "a", "m", "p", "\"", ":">> \o RecentStamp \o <<"}">>,
    <<"{", "\"", "w", "o", "r", "d", "s", "\"", ":", "\"", "c", "a", "t", "\"", ",", "\"", "t", "i", "m", "e", "s", "t", "a", "m", "p", "\"", ":">> \o RecentStamp \o <<"}">>,
    <<"{", "\"", "t", "i", "m", "e", "s", "t", "a", "m", "p", "\"", ":">> \o RecentStamp \o <<"}">>,
    <<"{", "\"", "w", "o", "r", "d", "s", "\"", ":", "[", "\"", "c", "a", "t", "\"", ",", "\"", "i", "c", "e", "\"", "]", ",", "\"", "t", "i", "m", "e", "s", "t", "a", "m", "p", "\"", ":">> \o RecentStamp \o <<"}">>
  }

\* Texts under the stats key: null, a text that is not JSON, records with no
\* or too few fields, a number, and a record as saveGameStats writes it.
InitialStatsTexts == {
    <<"n", "u", "l", "l">>,
    <<"{", "o", "o", "p", "s">>,
    <<"{", "}">>,
    <<"{", "\"", "g", "a", "m", "e", "s", "P", "l", "a", "y", "e", "d", "\"", ":", "1", "}">>,
    <<"7">>,
    <<"{", "\"", "g", "a", "m", "e", "s", "P", "l", "a", "y", "e", "d", "\"", ":", "1", ",", "\"", "t", "o", "t", "a", "l", "S", "c", "o", "r", "e", "\"", ":", "2", ",", "\"", "t", "o", "t", "a", "l", "W", "o", "r", "d", "s", "F", "o", "u", "n", "d", "\"", ":", "1", ",", "\"", "a", "v", "e", "r", "a", "g", "e", "S", "c", "o", "r", "e", "\"", ":", "2", ",", "\"", "b", "e", "s", "t", "S", "c", "o", "r", "e", "\"", ":", "2", "}">>
  }

InitialItems(texts) ==
  {NoItem} \cup {[present |-> TRUE, text |-> text] : text \in texts}

\* A words.txt with quotes, a backslash and a tab inside its lines.
QuotedTxt ==
  <<"s", "a", "y", " ", "\"", "h", "i", "\"", "\n", "c", ":", "\\", "d", "\n", "x", "\t", "y", "\n", "o", "k", "\n">>

\* The bodies response.text() yields here; the last one has no line.
StorageTexts == NetworkTexts \cup {QuotedTxt, <<>>}

InitStorage ==
  /\ InitObjects
  /\ storeDictionary = [kind |-> "absent"]
  /\ storeHighScore = NULL
  /\ storeStats = [kind |-> "absent"]
  /\ cfArgs = [word |-> <<>>, pool |-> <<>>]
  /\ cfResult = "none"
  /\ generated = <<>>
  /\ InitTimerHarness
  /\ InitLoadHarness
  /\ scored = <<>>
  /\ unresolved = 0
  /\ pauseTrace = [by |-> "none", keys |-> 0]
  /\ chosen = "none"
  /\ resetFrom = "none"
  /\ lsDictionary \in InitialItems(InitialDictionaryTexts)
  /\ lsStats \in InitialItems(InitialStatsTexts)
  /\ written = [words |-> {}, timestamp |-> NULL]
  /\ thrown = "none"

\* Dictionary.load(), first call on the instance: _loadDictionary up to its
\* first await, reading the cache as text.
S_load ==
  /\ dictionary.loadPromise = "null"
  /\ fetches < MaxTextFetches
  /\ Len(loadReturned) < MaxLoadCalls
  /\ loadReturned' = Append(loadReturned, Len(loadReturned) + 1)
  /\ LET cached == loadFromCacheText(lsDictionary, now)
     IN  /\ lsDictionary' = cached.item
         /\ IF cached.hit
              THEN /\ dictionary' = [words |-> cached.words, isLoaded |-> TRUE,
                                     loadPromise |-> "fulfilled"]
                   /\ loadPc' = "done"
                   /\ UNCHANGED fetches
              ELSE /\ dictionary' = [dictionary EXCEPT !.loadPromise = "pending"]
                   /\ loadPc' = "fetch"
                   /\ fetches' = fetches + 1
  /\ UNCHANGED <<gameState, timerVars, preloadWaiting, cacheWrites,
                 debouncePending, startWaiters, storeVars, message,
                 isInitialized, now, rounds, shuffles, cfArgs, cfResult,
                 generated, timerHarness, observed, scored, lsStats,
                 written, thrown, eventVars, resetFrom>>

\* response.text() settles with the body: _loadFromNetwork builds the set,
\* marks the dictionary loaded and _saveToCache writes the record as text.
S_textArrives(text) ==
  /\ loadPc = "text"
  /\ LET d == [dictionary EXCEPT !.words = parseWords(text), !.isLoaded = TRUE]
     IN  /\ dictionary' = [d EXCEPT !.loadPromise = "fulfilled"]
         /\ lsDictionary' = Storage_set(CacheData(d, now))
         /\ written' = [words |-> d.words, timestamp |-> now]
  /\ cacheWrites' = cacheWrites + 1
  /\ loadPc' = "done"
  /\ UNCHANGED <<gameState, timerVars, preloadWaiting, fetches,
                 debouncePending, startWaiters, storeVars, message,
                 isInitialized, now, rounds, shuffles, cfArgs, cfResult,
                 generated, timerHarness, loadHarness, scored, lsStats,
                 thrown, eventVars, resetFrom>>

\* The page is loaded again: a new Dictionary object over the same
\* localStorage.
S_reload ==
  /\ dictionary.loadPromise # "null"
  /\ dictionary' = [words |-> {}, isLoaded |-> FALSE, loadPromise |-> "null"]
  /\ loadPc' = "none"
  /\ UNCHANGED <<gameState, timerVars, preloadWaiting, fetches, cacheWrites,
                 debouncePending, startWaiters, storeVars, message,
                 isInitialized, now, rounds, shuffles, harnessVars>>

\* Time passes, up to past the maximum age of a record written at the start.
S_clock ==
  /\ now < StartTime + DICTIONARY_MAX_AGE + 1
  /\ now' = now + 1
  /\ UNCHANGED <<gameState, timerVars, loadVars, debouncePending, startWaiters,
                 storeVars, message, isInitialized, rounds, shuffles, harnessVars>>

\* The game states rounds end in: up to two words found.
RoundResults ==
  {GameState_reset}
    \cup {addFoundWord(GameState_reset, w) : w \in PlayableWords}
    \cup {addFoundWord(addFoundWord(GameState_reset, w[1]), w[2]) :
           w \in {p \in PlayableWords \X PlayableWords : p[1] # p[2]}}

\* The saveGameStats() call of endGame() for a round that ended in game
\* state gs, reading and writing the statistics as text.
S_saveGameStats(gs) ==
  /\ rounds < MaxRounds
  /\ rounds' = rounds + 1
  /\ LET r == saveGameStatsText(lsStats, gs)
     IN  /\ lsStats' = r.item
         /\ thrown' = r.thrown
  /\ UNCHANGED <<gameState, timerVars, loadVars, debouncePending, startWaiters,
                 storeVars, message, isInitialized, now, shuffles, cfArgs,
                 cfResult, generated, timerHarness, loadHarness, scored,
                 lsDictionary, written, eventVars, resetFrom>>

\* The dictionary cache alone: nothing is stored under the stats key and no
\* round ends.
InitCache == InitStorage /\ lsStats = NoItem

NextCache ==
  \/ S_load
  \/ \E outcome \in {"ok", "not_ok", "error"} : FetchSettles(outcome)
  \/ \E text \in StorageTexts : S_textArrives(text)
  \/ TextFails
  \/ S_reload
  \/ S_clock

SpecCache == InitCache /\ [][NextCache]_vars

NextStorage ==
  \/ S_load
  \/ \E outcome \in {"ok", "not_ok", "error"} : FetchSettles(outcome)
  \/ \E text \in StorageTexts : S_textArrives(text)
  \/ TextFails
  \/ S_reload
  \/ S_clock
  \/ \E gs \in RoundResults : S_saveGameStats(gs)

SpecStorage == InitStorage /\ [][NextStorage]_vars

(***************************************************************************)
(* The application with handleSubmitWord as the async function it is: on   *)
(* the accepting path the call stays unresolved, after it has updated the  *)
(* game state, while it awaits triggerCharacterAttack() and                *)
(* triggerCharacterShake() (animationend, or the 500 ms fallback timeout   *)
(* of animateElement, each); other tasks run meanwhile.                    *)
(***************************************************************************)
MaxUnresolved == 2

\* The debounce timeout fires and calls handleSubmitWord(), which runs to its
\* first await or, on the other paths, to its return.
P_submitFires(value) ==
  /\ ~MicrotasksPending
  /\ debouncePending
  /\ unresolved < MaxUnresolved
  /\ debouncePending' = FALSE
  /\ handleSubmitWord(value)
  /\ unresolved' = IF message' = "WORD_VALID" THEN unresolved + 1 ELSE unresolved
  /\ UNCHANGED <<timerVars, loadVars, startWaiters, storeVars, isInitialized,
                 now, rounds, shuffles, cfArgs, cfResult, generated,
                 timerHarness, loadHarness, scored, textVars, pauseTrace,
                 chosen, resetFrom>>

\* The animations a handleSubmitWord call awaits have ended: the call goes on
\* to updateDisplay() and focusInput(), which touch the page only, and
\* resolves.
P_animationsEnd ==
  /\ ~MicrotasksPending
  /\ unresolved > 0
  /\ unresolved' = unresolved - 1
  /\ UNCHANGED <<gameState, timerVars, loadVars, debouncePending, startWaiters,
                 storeVars, message, isInitialized, now, rounds, shuffles,
                 cfArgs, cfResult, generated, timerHarness, loadHarness,
                 scored, textVars, pauseTrace, chosen, resetFrom>>

NextSubmissions ==
  \/ AppInit
  \/ \E outcome \in {"ok", "not_ok", "error"} : FetchSettles(outcome)
  \/ \E text \in NetworkTexts : TextArrives(text)
  \/ TextFails
  \/ PreloadResumes
  \/ \E t \in Tapes : StartGame(t)
  \/ \E t \in Tapes : StartGameResumes(t)
  \/ \E id \in intervals : Tick(id)
  \/ NewGame
  \/ PauseGame
  \/ ResumeGame
  \/ \E t \in Tapes : ShuffleLetters(t)
  \/ SubmitRequested
  \/ \E value \in InputValues : P_submitFires(value)
  \/ P_animationsEnd

SpecSubmissions == Init /\ [][NextSubmissions]_vars

(***************************************************************************)
(* The application driven by the events of the page: pauseGame and         *)
(* resumeGame are reached from the document's keydown listener and from    *)
(* the visibilitychange listener only.                                     *)
(***************************************************************************)
MaxKeys == 2

\* Escape and F5, which the document's keydown listener handles; Enter, which
\* the word input's listener handles; and a key no listener handles.
Keys == {"Escape", "F5", "Enter", "a"}

\* A key is pressed, the focus being in the word input: the input's keydown
\* listener, then the document's.  t is the tape shuffleArray uses.
K_keyDown(key, t) ==
  /\ TaskMayRun
  /\ pauseTrace.keys < MaxKeys
  /\ pauseTrace' =
       IF key = "Escape" /\ gameState.isActive /\ ~gameTimer.isPaused
         THEN [by |-> "Escape", keys |-> 0]
       ELSE IF gameState.isActive /\ gameTimer.isPaused
         THEN [pauseTrace EXCEPT !.keys = @ + 1]
       ELSE pauseTrace
  /\ debouncePending' = IF key = "Enter" THEN TRUE ELSE debouncePending
  /\ IF gameState.isActive /\ key = "Escape"
       THEN \* pauseGame()
            /\ gameTimer' = GameTimer_pause(gameTimer)
            /\ message' = "PAUSED"
            /\ UNCHANGED <<gameState, shuffles>>
     ELSE IF gameState.isActive /\ key = "F5"
       THEN \* shuffleLetters()
            /\ shuffles < MaxShuffles
            /\ gameState' = [gameState EXCEPT
                               !.currentLetters = shuffleArray(@, t, 0)]
            /\ shuffles' = shuffles + 1
            /\ UNCHANGED <<gameTimer, message>>
     ELSE UNCHANGED <<gameState, shuffles, gameTimer, message>>
  /\ UNCHANGED <<intervals, loadVars, startWaiters, storeVars, isInitialized,
                 now, rounds, cfArgs, cfResult, generated, timerHarness,
                 loadHarness, scored, textVars, unresolved, chosen, resetFrom>>

\* The page is hidden or shown again: the visibilitychange listener.
K_visibilityChange(hidden) ==
  /\ TaskMayRun
  /\ IF gameState.isActive
       THEN IF hidden
              THEN \* pauseGame()
                   /\ gameTimer' = GameTimer_pause(gameTimer)
                   /\ message' = "PAUSED"
                   /\ pauseTrace' = IF gameTimer.isPaused THEN pauseTrace
                                    ELSE [by |-> "hidden", keys |-> 0]
              ELSE \* resumeGame()
                   /\ gameTimer' = GameTimer_resume(gameTimer)
                   /\ message' = "RESUMED"
                   /\ UNCHANGED pauseTrace
       ELSE UNCHANGED <<gameTimer, message, pauseTrace>>
  /\ UNCHANGED <<gameState, intervals, loadVars, debouncePending, startWaiters,
                 storeVars, isInitialized, now, rounds, shuffles, cfArgs,
                 cfResult, generated, timerHarness, loadHarness, scored,
                 textVars, unresolved, chosen, resetFrom>>

NextKeys ==
  \/ AppInit
  \/ \E outcome \in {"ok", "not_ok", "error"} : FetchSettles(outcome)
  \/ \E text \in NetworkTexts : TextArrives(text)
  \/ TextFails
  \/ PreloadResumes
  \/ \E t \in Tapes : StartGame(t)
  \/ \E t \in Tapes : StartGameResumes(t)
  \/ \E id \in intervals : Tick(id)
  \/ NewGame
  \/ \E t \in Tapes : ShuffleLetters(t)
  \/ SubmitRequested
  \/ \E value \in InputValues : SubmitFires(value)
  \/ \E key \in Keys, t \in Tapes : K_keyDown(key, t)
  \/ \E hidden \in BOOLEAN : K_visibilityChange(hidden)

SpecKeys == Init /\ [][NextKeys]_vars

(***************************************************************************)
(* Properties                                                              *)
(***************************************************************************)
\* Occurrences of the letter c in s, ignoring case.
CountOf(s, c) == Cardinality({i \in DOMAIN s : ToLowerChar(s[i]) = c})

\* Every letter occurs in `word` at most as often as in `letters`, ignoring case.
Formable(word, letters) ==
  \A c \in {ToLowerChar(word[i]) : i \in DOMAIN word} :
    CountOf(word, c) <= CountOf(letters, c)

\* The points of the scoring table for a word length of at least 2.
TablePoints(len) == IF len > 8 THEN SCORING[8] ELSE SCORING[len]

RECURSIVE SumOfPoints(_)
SumOfPoints(S) ==
  IF S = {} THEN 0
  ELSE LET w == CHOOSE w \in S : TRUE
       IN  TablePoints(Len(w)) + SumOfPoints(S \ {w})

Unresolved(w) ==
  w \notin gameState.foundWords /\ w \notin gameState.invalidWords

RoundStateUnchanged ==
  /\ gameState'.foundWords = gameState.foundWords
  /\ gameState'.invalidWords = gameState.invalidWords
  /\ gameState'.score = gameState.score

\* C1: in every reachable state of the application no word is both in
\* gameState.foundWords and in gameState.invalidWords.
C1_FoundAndInvalidDisjoint ==
  gameState.foundWords \cap gameState.invalidWords = {}

\* C1 witness: a round in which one word was accepted and another rejected.
C1_Witness ==
  gameState.foundWords # {} /\ gameState.invalidWords # {}

\* C2: in every reachable state of the application gameState.score is the sum
\* of the table points of the words in foundWords.
C2_ScoreIsSumOfFoundWords ==
  gameState.score = SumOfPoints(gameState.foundWords)

\* C2 witness: two words have been accepted.
C2_Witness ==
  Cardinality(gameState.foundWords) >= 2 /\ gameState.score > 0

\* C3: GameState.endGame() called while the round is not active changes no
\* field of the game state (in particular not gameEndTime).
C3_EndGameOutsideActiveChangesNothing ==
  [][(GS_endGame /\ ~gameState.isActive) => gameState' = gameState]_vars

\* C3 failing state: a game state that was never started (no start stamp) and
\* yet carries an end stamp, left by endGame() called in idle.
C3_Witness ==
  /\ ~gameState.isActive
  /\ gameState.gameStartTime = NULL
  /\ gameState.gameEndTime # NULL

\* C4: a submission, during an active round, of an unresolved word of at least
\* 2 letters that is formable and in the dictionary adds exactly that word to
\* foundWords, adds its table points to score and leaves invalidWords unchanged.
C4_SuccessPath ==
  [][\A w \in InputValues :
       (/\ SubmitFires(w)
        /\ gameState.isActive
        /\ Len(w) >= MIN_WORD_LENGTH
        /\ Unresolved(w)
        /\ Formable(w, gameState.currentLetters)
        /\ w \in dictionary.words)
       => /\ gameState'.foundWords = gameState.foundWords \cup {w}
          /\ gameState'.score = gameState.score + TablePoints(Len(w))
          /\ gameState'.invalidWords = gameState.invalidWords]_vars

\* C4 witness: a submission has just been accepted.
C4_Witness ==
  /\ message = "WORD_VALID"
  /\ gameState.isActive
  /\ gameState.foundWords # {}

\* C5: a submission, during an active round, of a word shorter than 2 letters,
\* already in foundWords or already in invalidWords leaves foundWords,
\* invalidWords and score unchanged.
C5_PureRejects ==
  [][\A w \in InputValues :
       (/\ SubmitFires(w)
        /\ gameState.isActive
        /\ \/ Len(w) < MIN_WORD_LENGTH
           \/ w \in gameState.foundWords
           \/ w \in gameState.invalidWords)
       => RoundStateUnchanged]_vars

\* C5 witness: an accepted word has been submitted a second time.
C5_Witness ==
  /\ message = "WORD_ALREADY_FOUND"
  /\ gameState.isActive
  /\ gameState.foundWords # {}

\* C6: a submission, during an active round, of an unresolved word of at least
\* 2 letters that is not formable, or is formable but not in the dictionary,
\* adds exactly that word to invalidWords and leaves foundWords and score
\* unchanged.
C6_InvalidPaths ==
  [][\A w \in InputValues :
       (/\ SubmitFires(w)
        /\ gameState.isActive
        /\ Len(w) >= MIN_WORD_LENGTH
        /\ Unresolved(w)
        /\ \/ ~Formable(w, gameState.currentLetters)
           \/ w \notin dictionary.words)
       => /\ gameState'.invalidWords = gameState.invalidWords \cup {w}
          /\ gameState'.foundWords = gameState.foundWords
          /\ gameState'.score = gameState.score]_vars

\* C6 witness: a formable word missing from the dictionary has been rejected.
C6_Witness ==
  /\ message = "WORD_NOT_IN_DICTIONARY"
  /\ gameState.isActive
  /\ \E w \in gameState.invalidWords : Formable(w, gameState.currentLetters)

\* The outcome the fixed order of checks selects for input value w.
FirstMatch(w) ==
  CASE Len(w) < MIN_WORD_LENGTH -> "WORD_TOO_SHORT"
    [] Len(w) >= MIN_WORD_LENGTH /\ w \in gameState.foundWords -> "WORD_ALREADY_FOUND"
    [] Len(w) >= MIN_WORD_LENGTH /\ w \notin gameState.foundWords
       /\ w \in gameState.invalidWords -> "WORD_ALREADY_INVALID"
    [] Len(w) >= MIN_WORD_LENGTH /\ Unresolved(w)
       /\ ~Formable(w, gameState.currentLetters) -> "WORD_CANNOT_FORM"
    [] Len(w) >= MIN_WORD_LENGTH /\ Unresolved(w)
       /\ Formable(w, gameState.currentLetters)
       /\ w \notin dictionary.words -> "WORD_NOT_IN_DICTIONARY"
    [] OTHER -> "WORD_VALID"

\* C7: every submission during an active round reports the outcome of the first
\* matching check in the order TooShort, AlreadyFound, AlreadyInvalid,
\* CannotForm, NotInDictionary, Success.
C7_OneOutcomeInFixedOrder ==
  [][\A w \in InputValues :
       (SubmitFires(w) /\ gameState.isActive) => message' = FirstMatch(w)]_vars

\* C7 witness: a word that is neither formable nor in the dictionary has been
\* reported as CannotForm.
C7_Witness ==
  /\ message = "WORD_CANNOT_FORM"
  /\ gameState.isActive
  /\ \E w \in gameState.invalidWords :
       ~Formable(w, gameState.currentLetters) /\ w \notin dictionary.words

\* C8: a submission processed while the round is not active leaves foundWords,
\* invalidWords and score unchanged, and no step taken while the round is not
\* active changes them except by resetting them to empty, empty and 0.
C8_FrozenWhileInactive ==
  [][~gameState.isActive =>
       /\ (\E w \in InputValues : SubmitFires(w)) => RoundStateUnchanged
       /\ \/ RoundStateUnchanged
          \/ /\ gameState'.foundWords = {}
             /\ gameState'.invalidWords = {}
             /\ gameState'.score = 0]_vars

\* C8 witness: the timer has ended a round with an accepted word, and a
\* debounced submission has fired afterwards.
C8_Witness ==
  /\ ~gameState.isActive
  /\ gameState.gameEndTime # NULL
  /\ gameState.foundWords # {}
  /\ message = "START_NEW_GAME"

\* C9: canFormWord(word, pool) returns true exactly when every letter occurs in
\* the word at most as often as in the pool, ignoring case; the empty word is
\* formable from every pool.
C9_CanFormWordIsMultisetSubset ==
  cfResult # "none" =>
    /\ (cfResult = "true") <=> Formable(cfArgs.word, cfArgs.pool)
    /\ cfArgs.word = <<>> => cfResult = "true"

\* C9 witness: a word with a repeated letter was refused on a pool holding that
\* letter once, in the other case.
C9_Witness ==
  /\ cfResult = "false"
  /\ cfArgs.word = <<"a", "a">>
  /\ cfArgs.pool = <<"A", "b">>

\* C10: every pool generate() returns has NUM_LETTERS letters, 4 of them from
\* VOWEL_POOL and NUM_LETTERS - 4 from CONSONANT_POOL.
C10_GeneratedPoolShape ==
  generated # <<>> =>
    /\ Len(generated) = NUM_LETTERS
    /\ Cardinality({i \in DOMAIN generated : generated[i] \in Range(VOWEL_POOL)}) = 4
    /\ Cardinality({i \in DOMAIN generated : generated[i] \in Range(CONSONANT_POOL)})
         = NUM_LETTERS - 4
    /\ \A i \in DOMAIN generated :
         generated[i] \in Range(VOWEL_POOL) \cup Range(CONSONANT_POOL)

\* C10 witness: a generated pool whose vowels are not all in front, so the
\* shuffle has run.
C10_Witness ==
  /\ Len(generated) = NUM_LETTERS
  /\ generated[1] \in Range(CONSONANT_POOL)
  /\ generated[NUM_LETTERS] \in Range(VOWEL_POOL)

\* Occurrences of the character c in the sequence s.
LetterCount(s, c) == Cardinality({i \in DOMAIN s : s[i] = c})

\* a and b hold the same letters the same number of times.
SameLetters(a, b) ==
  /\ Len(a) = Len(b)
  /\ \A c \in Range(a) \cup Range(b) : LetterCount(a, c) = LetterCount(b, c)

\* C11: no step changes the multiset (hence the length) of
\* gameState.currentLetters, except a reset: the one in startGame, which begins
\* a round, or the one in newGame; and a shuffleLetters step in an active round
\* changes nothing of the game state but the order of currentLetters.
C11_LettersFixedDuringRound ==
  [][/\ \/ SameLetters(gameState.currentLetters, gameState'.currentLetters)
        \/ rounds' = rounds + 1
        \/ gameState' = GameState_reset
     /\ \A t \in Tapes :
          (ShuffleLetters(t) /\ gameState.isActive)
            => /\ SameLetters(gameState.currentLetters, gameState'.currentLetters)
               /\ gameState' = [gameState EXCEPT
                                  !.currentLetters = gameState'.currentLetters]]_vars

\* C11 witness: an active round whose letters are those generate() drew, in
\* another order: a shuffle has acted.
C11_Witness ==
  /\ gameState.isActive
  /\ shuffles > 0
  /\ \E t \in Tapes :
       /\ SameLetters(gameState.currentLetters, generate(t))
       /\ gameState.currentLetters # generate(t)

\* C12: a shuffleLetters call while the round is not active changes neither
\* gameState (currentLetters included) nor the timer, the dictionary or the
\* stored scores.
C12_ShuffleOutsideRoundIsNoOp ==
  [][\A t \in Tapes :
       (ShuffleLetters(t) /\ ~gameState.isActive)
         => UNCHANGED <<gameState, timerVars, dictionary, storeVars, message>>]_vars

\* C12 witness: a round has ended with its letters still in place, and the
\* shuffle button can be pressed.
C12_Witness ==
  /\ ~gameState.isActive
  /\ gameState.gameEndTime # NULL
  /\ Len(gameState.currentLetters) = NUM_LETTERS
  /\ \E t \in Tapes : ENABLED ShuffleLetters(t)

\* C13: GameTimer.timeLeft is never negative, whatever non-negative duration
\* start() was given and however start, ticks, pause, resume and stop
\* interleave.
C13_TimeLeftNeverNegative == gameTimer.timeLeft >= 0

\* C13 failing state: after start(0) the first tick has counted down to -1,
\* passed -1 to onTick and completed.
C13_Witness ==
  /\ gameTimer.timeLeft = 0 - 1
  /\ onTickCalls = <<0 - 1>>
  /\ onCompleteCalls = 1

\* The last value passed to onTick.
LastTick == onTickCalls[Len(onTickCalls)]

\* Since the last start(): onComplete was called at most once; ticks count
\* down by one; the tick that reaches 0 or less is the last one, it leaves no
\* interval live and it is the one tick that calls onComplete.
CompletesOnceAndHalts ==
  /\ onCompleteCalls <= 1
  /\ \A i \in 1..(Len(onTickCalls) - 1) :
       onTickCalls[i] > 0 /\ onTickCalls[i + 1] = onTickCalls[i] - 1
  /\ onCompleteCalls = 1 <=> (onTickCalls # <<>> /\ LastTick <= 0)
  /\ onCompleteCalls = 1 => intervals = {}

\* C14: for each start(d), onComplete is called at most once, on the tick that
\* brings the remaining time to 0, and no tick follows it until the next
\* start(); after start(5) the ticks carry 4, 3, 2, 1, 0 and one completion
\* follows.
C14_CompletionExactlyOnceAtZero ==
  /\ CompletesOnceAndHalts
  /\ onCompleteCalls = 1 => (LastTick = 0 /\ gameTimer.timeLeft = 0)
  /\ (onTickCalls # <<>> /\ onTickCalls[1] = 4 /\ onCompleteCalls = 1)
       => onTickCalls = <<4, 3, 2, 1, 0>>

\* C14 failing state: start(0) completed on a tick that brought the remaining
\* time to -1.
C14_Witness ==
  /\ onCompleteCalls = 1
  /\ LastTick = 0 - 1
  /\ intervals = {}

\* The same for starts with a duration of at least 1 (the first tick carries a
\* value of 0 or more), and the scenario of start(5): holds.
CompletionExactlyOnceFromPositiveDuration ==
  (onTickCalls # <<>> /\ onTickCalls[1] >= 0) => C14_CompletionExactlyOnceAtZero

\* start(5) has run to completion without a pause.
StartFiveCompleted ==
  /\ onTickCalls = <<4, 3, 2, 1, 0>>
  /\ onCompleteCalls = 1
  /\ firings = 5

\* C16: while the timer is paused a firing of the interval changes neither
\* timeLeft nor the live interval and calls neither callback; pause() and
\* resume() change only isPaused; and a firing while not paused counts down by
\* one from the value timeLeft had, so the countdown resumes where it paused.
C16_PauseSuppressesTicks ==
  [][/\ \A id \in intervals :
          (GT_tick(id) /\ gameTimer.isPaused)
            => UNCHANGED <<gameTimer, intervals, onTickCalls, onCompleteCalls>>
     /\ \A id \in intervals :
          (GT_tick(id) /\ ~gameTimer.isPaused)
            => /\ gameTimer'.timeLeft = gameTimer.timeLeft - 1
               /\ onTickCalls' = Append(onTickCalls, gameTimer.timeLeft - 1)
     /\ GT_pause => /\ gameTimer' = [gameTimer EXCEPT !.isPaused = TRUE]
                    /\ UNCHANGED <<intervals, onTickCalls, onCompleteCalls>>
     /\ GT_resume => /\ gameTimer' = [gameTimer EXCEPT !.isPaused = FALSE]
                     /\ UNCHANGED <<intervals, onTickCalls, onCompleteCalls>>]_vars

\* C16 witness: the interval has fired more often than onTick was called (a
\* firing was suppressed), and the countdown has gone on after resume().
C16_Witness ==
  /\ firings > Len(onTickCalls)
  /\ Len(onTickCalls) >= 2
  /\ ~gameTimer.isPaused
  /\ intervals # {}

\* C17: stop() applied twice gives what stop() applied once gives; it leaves
\* timeLeft and isPaused alone; on a stopped timer it changes nothing; and once
\* stopped no interval is live, so no callback runs before the next start().
C17_StopIdempotent ==
  LET tw == [tm |-> gameTimer, live |-> intervals]
      once == GameTimer_stop(tw)
  IN  /\ GameTimer_stop(once) = once
      /\ once.tm.timeLeft = gameTimer.timeLeft
      /\ once.tm.isPaused = gameTimer.isPaused
      /\ once.tm.interval = 0
      /\ once.live = {}
      /\ gameTimer.interval = 0 => (once = tw /\ intervals = {})

\* C17 witness: a countdown was stopped by stop() before it completed.
C17_Witness ==
  /\ starts > 0
  /\ gameTimer.interval = 0
  /\ intervals = {}
  /\ gameTimer.timeLeft > 0
  /\ onTickCalls # <<>>
  /\ onCompleteCalls = 0

\* C15: in every reachable state of the application at most one interval is
\* live, and it is the one the timer holds: every interval an earlier start()
\* created has been cleared and fires no more.
C15_AtMostOneLiveInterval ==
  /\ Cardinality(intervals) <= 1
  /\ intervals \subseteq {gameTimer.interval}

\* C15 witness: two startGame calls overlapped on the dictionary load; the
\* first has resumed and started the countdown, the second is about to resume
\* and start the timer again.
C15_Witness ==
  /\ startWaiters = 1
  /\ Settled
  /\ intervals # {}
  /\ gameState.isActive

\* C18: in every reachable state of the application in which the round is not
\* active (idle or ended) no interval is live, so no tick can run there.
C18_NoLiveIntervalOutsideRound ==
  ~gameState.isActive => (intervals = {} /\ gameTimer.interval = 0)

\* C18 witness: the countdown has run out and ended the round.
C18_Witness ==
  /\ ~gameState.isActive
  /\ gameState.gameEndTime # NULL
  /\ gameState.timeLeft = 0
  /\ gameTimer.timeLeft = 0
  /\ intervals = {}

\* What every caller of load() has seen is what the dictionary holds now.
CallersAgree ==
  \A i \in DOMAIN observed :
    observed[i] = [outcome  |-> dictionary.loadPromise,
                   isLoaded |-> dictionary.isLoaded,
                   words    |-> dictionary.words]

\* C19 as stated: for any number of load() calls, before or after the first
\* settles, words.txt is fetched at most once, the cache is written at most
\* once, every caller receives the same promise, and all callers observe the
\* same final loaded state.
C19_LoadOncePerCallerSamePromise ==
  /\ fetches <= 1
  /\ cacheWrites <= 1
  /\ \A i, j \in DOMAIN loadReturned : loadReturned[i] = loadReturned[j]
  /\ CallersAgree

\* C19 amended: the same, except that every caller receives a promise of its
\* own (load is an async function), all of which settle as the one memoized
\* loadPromise does.
C19_LoadOncePerCallerSameOutcome ==
  /\ fetches <= 1
  /\ cacheWrites <= 1
  /\ \A i, j \in DOMAIN loadReturned :
       i # j => loadReturned[i] # loadReturned[j]
  /\ \A i \in DOMAIN observed :
       observed[i].outcome \in {"fulfilled", "rejected"}
  /\ CallersAgree

\* C19 witness: every caller, some of which called load() before it settled,
\* has resumed after a load that went to the network once and wrote the cache
\* once.
C19_Witness ==
  /\ Len(observed) = MaxLoadCalls
  /\ fetches = 1
  /\ cacheWrites = 1
  /\ dictionary.loadPromise = "fulfilled"

\* The word sets of the cache entries earlier sessions can have left.
CachedSets == {Range(c.words) : c \in {x \in InitialCaches : x.kind = "record"}}

\* The word sets words.txt can yield.
FetchedSets == {parseWords(text) : text \in NetworkTexts}

\* C20: once the load promise has settled, fulfilled or rejected, isLoaded is
\* true and the words are the cached set (no fetch was made), the fetched set
\* or, after a rejection, the built-in fallback list; and _loadDictionary never
\* ends without settling the promise.
C20_SettledMeansLoaded ==
  /\ Settled =>
       /\ dictionary.isLoaded
       /\ (dictionary.loadPromise = "fulfilled" /\ fetches = 0)
            => dictionary.words \in CachedSets
       /\ (dictionary.loadPromise = "fulfilled" /\ fetches > 0)
            => dictionary.words \in FetchedSets
       /\ dictionary.loadPromise = "rejected"
            => dictionary.words = fallbackWords
  /\ loadPc = "done" <=> Settled

\* C20 witness: the load was rejected after a fetch, and the dictionary holds
\* the fallback list.
C20_Witness ==
  /\ dictionary.loadPromise = "rejected"
  /\ fetches = 1
  /\ cacheWrites = 0
  /\ dictionary.isLoaded
  /\ dictionary.words = fallbackWords

\* C21: a failed dictionary load never blocks play.  Whenever startGame runs
\* to its end after the load promise was rejected (a call made after the
\* failure, or a call that was suspended at its await while the fetch failed),
\* it leaves the round active, a pool of NUM_LETTERS letters generated, the
\* countdown running from the full duration on a live interval, and the
\* dictionary loaded with the fallback list.
C21_FailedLoadNeverBlocksPlay ==
  [][\A t \in Tapes :
       (dictionary.loadPromise = "rejected"
          /\ ((StartGame(t) /\ dictionary.isLoaded) \/ StartGameResumes(t)))
       => /\ gameState'.isActive
          /\ Len(gameState'.currentLetters) = NUM_LETTERS
          /\ gameTimer'.interval \in intervals'
          /\ ~gameTimer'.isPaused
          /\ gameTimer'.timeLeft = DURATION_SECONDS
          /\ dictionary'.isLoaded
          /\ dictionary'.words = fallbackWords]_vars

\* C21 witness: the fetch failed, startGame has run to its end and the round
\* is on with the fallback list.
C21_Witness ==
  /\ dictionary.loadPromise = "rejected"
  /\ fetches = 1
  /\ startWaiters = 0
  /\ rounds = 1
  /\ gameState.isActive
  /\ gameTimer.interval \in intervals
  /\ message = "GAME_START"
  /\ dictionary.words = fallbackWords

\* C22: the first Dictionary.load() with a cache record younger than
\* DICTIONARY_MAX_AGE (now - timestamp strictly below it) adopts the cached
\* words, issues no fetch and leaves the record in place; with no record, or a
\* record whose age is at or beyond the maximum, it issues the fetch, and by
\* then the store holds no record (a stale one was removed).
C22_FreshCacheOrFetch ==
  [][(D_load /\ dictionary.loadPromise = "null") =>
       IF /\ storeDictionary.kind = "record"
          /\ now - storeDictionary.timestamp < DICTIONARY_MAX_AGE
         THEN /\ dictionary'.isLoaded
              /\ dictionary'.words = Range(storeDictionary.words)
              /\ fetches' = fetches
              /\ loadPc' = "done"
              /\ storeDictionary' = storeDictionary
         ELSE /\ fetches' = fetches + 1
              /\ loadPc' = "fetch"
              /\ ~dictionary'.isLoaded
              /\ storeDictionary'.kind = "absent"]_vars

\* C22 witness: load() has adopted a record one time unit short of the
\* maximum age without a fetch.
C22_Witness ==
  /\ Len(loadReturned) >= 1
  /\ storeDictionary.kind = "record"
  /\ now - storeDictionary.timestamp = DICTIONARY_MAX_AGE - 1
  /\ dictionary.loadPromise = "fulfilled"
  /\ dictionary.words = Range(storeDictionary.words)
  /\ fetches = 0

\* C24: over any two scored words of at least two letters the longer one
\* never scores less; every word longer than 8 letters scores what an
\* 8-letter word scores, so a 9-letter word and an 8-letter word score the
\* same; and no word scores more than the length-8 value.
C24_ScoreMonotoneAndCapped ==
  \A i, j \in DOMAIN scored :
    LET a == scored[i]
        b == scored[j]
    IN  /\ a.points <= SCORING[8]
        /\ (2 <= Len(a.word) /\ Len(a.word) <= Len(b.word))
              => a.points <= b.points
        /\ Len(a.word) > 8 => a.points = SCORING[8]
        /\ (Len(a.word) = 8 /\ Len(b.word) = 9) => a.points = b.points

\* C24 witness: an 8-letter word and a 9-letter word were scored, both at the
\* top of the table.
C24_Witness ==
  /\ Len(scored) = 2
  /\ Len(scored[1].word) = 8
  /\ Len(scored[2].word) = 9
  /\ scored[1].points = 20
  /\ scored[2].points = 20

\* The fields the idle state is known by: nothing found, nothing rejected,
\* no points, not active, no start or end timestamp.
IdleAndEmpty(gs) ==
  /\ gs.foundWords = {}
  /\ gs.invalidWords = {}
  /\ gs.score = 0
  /\ ~gs.isActive
  /\ gs.gameStartTime = NULL
  /\ gs.gameEndTime = NULL

\* C25: GameState.reset() called in any phase (idle, active or ended) leaves
\* the idle state with empty found and invalid sets, score 0, isActive false
\* and no start or end timestamp; and a reset() called on a state a reset()
\* left changes nothing, so two calls leave what one call leaves.
C25_ResetYieldsIdleAndIsIdempotent ==
  [][GS_reset =>
       /\ IdleAndEmpty(gameState')
       /\ Phase(gameState') = "idle"
       /\ IdleAndEmpty(gameState) => gameState' = gameState]_vars

\* C25 witness: reset() was called on an ended round and left the idle state.
C25_Witness ==
  /\ resetFrom = "ended"
  /\ IdleAndEmpty(gameState)
  /\ now > StartTime

\* C26: every round starts fresh.  Whenever startGame runs to its end (then
\* and only then the count of rounds begun goes up), the found and invalid
\* sets are empty, the score is 0, the pool is the newly generated one, and
\* both the game state's and the timer's clock show the full round duration,
\* whatever the earlier round found or rejected.
C26_EveryRoundStartsFresh ==
  [][\A t \in Tapes :
       ((StartGame(t) \/ StartGameResumes(t)) /\ rounds' = rounds + 1)
       => /\ gameState'.foundWords = {}
          /\ gameState'.invalidWords = {}
          /\ gameState'.score = 0
          /\ gameState'.isActive
          /\ gameState'.currentLetters = generate(t)
          /\ Len(gameState'.currentLetters) = NUM_LETTERS
          /\ gameState'.timeLeft = DURATION_SECONDS
          /\ gameTimer'.timeLeft = DURATION_SECONDS]_vars

\* C26 witness: a first round ended with one word found and recorded in the
\* statistics, and in the second round a word has been accepted again, the
\* score counting that word alone.
C26_Witness ==
  /\ rounds = 2
  /\ storeStats.kind = "record"
  /\ storeStats.totalWordsFound = 1
  /\ gameState.isActive
  /\ Cardinality(gameState.foundWords) = 1
  /\ gameState.foundWords \subseteq PlayableWords
  /\ gameState.score = 2

\* The value of a statistic, 0 while nothing is stored.
Stat(stored, field) == IF stored.kind = "record" THEN stored[field] ELSE 0

\* The step is a timer completion: the round was active and is ended.
RoundCompletes ==
  /\ gameState.isActive
  /\ ~gameState'.isActive
  /\ gameState'.gameEndTime # NULL

C23_CacheRoundTrip ==
  [][(S_load /\ written.timestamp # NULL /\ lsDictionary.present) =>
       IF now - written.timestamp < DICTIONARY_MAX_AGE
         THEN /\ dictionary'.isLoaded
              /\ dictionary'.words = written.words
              /\ fetches' = fetches
              /\ lsDictionary' = lsDictionary
         ELSE /\ ~dictionary'.isLoaded
              /\ dictionary'.words = {}
              /\ loadPc' = "fetch"
              /\ fetches' = fetches + 1
              /\ lsDictionary' = NoItem]_vars

\* C23 witness: a second Dictionary has loaded, without a fetch of its own,
\* the words with quotes, backslash and tab that the first one fetched and
\* wrote one time unit earlier.
C23_Witness ==
  /\ Len(loadReturned) = 2
  /\ fetches = 1
  /\ cacheWrites = 1
  /\ now = written.timestamp + DICTIONARY_MAX_AGE - 1
  /\ dictionary.loadPromise = "fulfilled"
  /\ dictionary.words = parseWords(QuotedTxt)
  /\ dictionary.words = written.words

\* The text is a dictionary record of the right shape: an object whose words
\* are a list of strings and whose timestamp is a number.
WellFormedCacheText(text) ==
  LET r == JSON_parse(text)
  IN  /\ r.ok
      /\ r.val.t = "object"
      /\ LET words == Prop(r.val, <<"w","o","r","d","s">>)
             stamp == Prop(r.val, <<"t","i","m","e","s","t","a","m","p">>)
         IN  /\ words.t = "array"
             /\ \A i \in DOMAIN words.v : words.v[i].t = "string"
             /\ stamp.t = "number"

\* The text is a stats record of the right shape: an object whose five
\* statistics are numbers.
WellFormedStatsText(text) ==
  LET r == JSON_parse(text)
  IN  /\ r.ok
      /\ r.val.t = "object"
      /\ \A i \in DOMAIN DefaultStats.k : Prop(r.val, DefaultStats.k[i]).t = "number"

\* C28: malformed persisted state is never adopted or propagated.  A load
\* that finds a dictionary text of the wrong shape goes on as with nothing
\* stored (nothing adopted, the fetch issued); an end-of-round stats update
\* that finds a stats text of the wrong shape stores what it stores when
\* nothing is stored (the defaults plus this round); and no step leaves an
\* exception uncaught.
C28_MalformedStateIsDiscarded ==
  [][/\ (S_load /\ lsDictionary.present /\ ~WellFormedCacheText(lsDictionary.text))
          => /\ ~dictionary'.isLoaded
             /\ dictionary'.words = {}
             /\ loadPc' = "fetch"
     /\ \A gs \in RoundResults :
          (S_saveGameStats(gs) /\ lsStats.present /\ ~WellFormedStatsText(lsStats.text))
          => lsStats' = saveGameStatsText(NoItem, gs).item
     /\ thrown' = "none"]_vars

\* C28 witness: the stats key held the text null, a round ended, and the
\* stats update threw TypeError and left the text as it was; and the load
\* adopted, without a fetch, the characters of a stored string as its words.
C28_Witness ==
  /\ rounds = 1
  /\ thrown = "TypeError"
  /\ lsStats = [present |-> TRUE, text |-> <<"n", "u", "l", "l">>]
  /\ dictionary.isLoaded
  /\ fetches = 0
  /\ dictionary.words = {<<"c">>, <<"a">>, <<"t">>}

\* C29: submissions are processed serially.  A handleSubmitWord call begins
\* only while no earlier call is unresolved, the calls that await the attack
\* and shake animations included; and within the step from a call's checks to
\* its update of the found set, the invalid set and the score, the round is
\* neither ended nor reset nor restarted.
C29_SubmissionsAreSerial ==
  [][\A value \in InputValues :
       P_submitFires(value) =>
         /\ unresolved = 0
         /\ gameState'.isActive = gameState.isActive
         /\ UNCHANGED <<timerVars, rounds>>]_vars

\* C29 witness: two handleSubmitWord calls are unresolved at once, each having
\* put its word into the found set.
C29_Witness ==
  /\ unresolved = 2
  /\ gameState.isActive
  /\ Cardinality(gameState.foundWords) = 2

\* C30: after Escape has paused the game, the next key press resumes the
\* countdown.
C30_NextKeyPressResumes ==
  [][\A key \in Keys, t \in Tapes :
       (/\ K_keyDown(key, t)
        /\ gameState.isActive
        /\ gameTimer.isPaused
        /\ pauseTrace = [by |-> "Escape", keys |-> 0])
       => ~gameTimer'.isPaused]_vars

\* C30 witness: Escape paused the round, MaxKeys keys have been pressed since,
\* and the countdown is still paused on its live interval.
C30_Witness ==
  /\ gameState.isActive
  /\ pauseTrace = [by |-> "Escape", keys |-> MaxKeys]
  /\ gameTimer.isPaused
  /\ gameTimer.interval \in intervals
  /\ message = "PAUSED"

\* Round k is running.
RoundActive(k) == rounds = k /\ gameState.isActive

\* Round k has ended by its clock: timeLeft is 0, the interval is cleared,
\* the round is inactive and carries its end timestamp.
RoundEnded(k) ==
  /\ rounds = k
  /\ ~gameState.isActive
  /\ gameState.gameEndTime # NULL
  /\ gameState.timeLeft = 0
  /\ gameTimer.timeLeft = 0
  /\ gameTimer.interval = 0
  /\ intervals = {}

\* newGame (the state is reset: inactive, no end timestamp) or a later
\* startGame has intervened in round k.
Intervened(k) ==
  \/ rounds > k
  \/ rounds = k /\ ~gameState.isActive /\ gameState.gameEndTime = NULL

\* Every started round that nothing intervenes in ends.
EveryRoundEnds ==
  \A k \in 1..MaxRounds : RoundActive(k) ~> (RoundEnded(k) \/ Intervened(k))

\* C31 as stated: every started round eventually ends.  If the callback of
\* the live interval keeps being called (SpecFair), the clock is not paused
\* forever, and neither newGame nor a new startGame intervenes, a started
\* round reaches timeLeft = 0 with the clock stopped, the round inactive and
\* its end timestamp set.
C31_RoundEndsUnlessPausedForever ==
  ([]<>(~gameTimer.isPaused)) => EveryRoundEnds

\* C31 amended: the same, provided the clock is from some point on left
\* running (not paused again).
C31_RoundEndsOnceLeftRunning ==
  (<>[](~gameTimer.isPaused)) => EveryRoundEnds

\* C31 witness: the first round has ended by its clock and endGame has run.
C31_Witness ==
  /\ RoundEnded(1)
  /\ message = "GAME_OVER"
  /\ storeStats.kind = "record"

\* A normalized word: lowercase letters a to z only, MIN_WORD_LENGTH to
\* MAX_WORD_LENGTH of them.
Normalized(w) ==
  /\ \A i \in DOMAIN w : w[i] \in Range(LowerLetters)
  /\ Len(w) >= MIN_WORD_LENGTH
  /\ Len(w) <= MAX_WORD_LENGTH

\* C32: every word in foundWords or invalidWords is normalized (letters a
\* to z only, length MIN_WORD_LENGTH to MAX_WORD_LENGTH), and sanitizeInput
\* is idempotent: it returns a stored word, and what it returned for any
\* typed text, unchanged.
C32_StoredWordsAreNormalized ==
  /\ \A w \in gameState.foundWords \cup gameState.invalidWords :
        Normalized(w) /\ sanitizeInput(w) = w
  /\ \A typed \in RawInputs :
        sanitizeInput(sanitizeInput(typed)) = sanitizeInput(typed)

\* C32 witness: the round holds an accepted and a rejected word, among them
\* the over-long text cut to MAX_WORD_LENGTH letters and a word that was
\* typed in upper case with blanks and punctuation around it.
C32_Witness ==
  /\ gameState.isActive
  /\ sanitizeInput(<<" ","C","a","T","!","\n">>) \in gameState.foundWords
  /\ \E w \in gameState.invalidWords : Len(w) = MAX_WORD_LENGTH

\* C33: while a round is active the dictionary is loaded, so every hasWord
\* call of handleSubmitWord finds it loaded; and once isLoaded is true, no
\* step makes it false or changes the word set, the steps in which
\* preloadDictionary and startGame handle the rejection of the same load
\* included.
C33_LoadedWhileActiveAndForGood ==
  [][/\ gameState'.isActive => dictionary'.isLoaded
     /\ dictionary.isLoaded =>
          /\ dictionary'.isLoaded
          /\ dictionary'.words = dictionary.words]_vars

\* C33 witness: the load was rejected, preloadDictionary has handled the
\* rejection, and a startGame that awaited the same load is about to handle
\* it too; the dictionary is loaded with the fallback list.
C33_Witness ==
  /\ dictionary.loadPromise = "rejected"
  /\ ~preloadWaiting
  /\ startWaiters > 0
  /\ dictionary.isLoaded
  /\ dictionary.words = fallbackWords

\* C34: every word in foundWords can be formed from the current letters and
\* is in the dictionary, and every word in invalidWords cannot be formed from
\* the current letters or is not in the dictionary, in every state (after a
\* shuffle and after the end of the round too).
C34_ListsAgreeWithPoolAndDictionary ==
  /\ \A w \in gameState.foundWords :
        /\ canFormWord(w, gameState.currentLetters)
        /\ hasWord(dictionary, w)
  /\ \A w \in gameState.invalidWords :
        \/ ~canFormWord(w, gameState.currentLetters)
        \/ ~hasWord(dictionary, w)

\* C34 witness: in a running round whose letters have been shuffled there is
\* an accepted word, a rejected word that the letters cannot form, and a
\* rejected word that the letters form but the dictionary does not hold.
C34_Witness ==
  /\ gameState.isActive
  /\ shuffles = 1
  /\ gameState.foundWords # {}
  /\ \E w \in gameState.invalidWords : ~canFormWord(w, gameState.currentLetters)
  /\ \E w \in gameState.invalidWords :
        canFormWord(w, gameState.currentLetters) /\ ~hasWord(dictionary, w)

\* C35: the step in which the load fails installs the fallback list and
\* rejects the promise; from then on no step, a later load() call included,
\* changes the dictionary (its words, isLoaded, the rejected loadPromise),
\* reads or writes the cache or issues a fetch; and every caller that
\* resumes sees the rejection and the fallback list.
C35_RejectionIsMemoized ==
  [][/\ (dictionary.loadPromise # "rejected" /\ dictionary'.loadPromise = "rejected")
          => /\ dictionary'.isLoaded
             /\ dictionary'.words = fallbackWords
     /\ dictionary.loadPromise = "rejected"
          => /\ UNCHANGED <<dictionary, loadPc, fetches, cacheWrites, storeDictionary>>
             /\ \A i \in DOMAIN observed' :
                  i > Len(observed) =>
                    observed'[i] = [outcome  |-> "rejected",
                                    isLoaded |-> TRUE,
                                    words    |-> fallbackWords]]_vars

\* C35 witness: MaxLoadCalls load() calls have been made and every caller
\* has resumed with the rejection, after one fetch.
C35_Witness ==
  /\ dictionary.loadPromise = "rejected"
  /\ fetches = 1
  /\ Len(loadReturned) = MaxLoadCalls
  /\ Len(observed) = MaxLoadCalls
  /\ \A i \in DOMAIN observed : observed[i].outcome = "rejected"

\* C36: a record is put under the dictionary key only by the step that ends
\* a successful network fetch (the text has arrived; the record holds the
\* words just parsed).  Every other step leaves the record as it is or, when
\* a load finds it expired, removes it; in particular the steps that end a
\* load on the cache-hit path or on the fallback path store nothing, and the
\* stored words are never the fallback list.
C36_CacheWrittenOnlyAfterFetch ==
  [][/\ storeDictionary' # storeDictionary =>
          \/ /\ loadPc = "text"
             /\ dictionary'.loadPromise = "fulfilled"
             /\ cacheWrites' = cacheWrites + 1
             /\ storeDictionary' = saveToCache(dictionary', now)
             /\ dictionary'.words \in {parseWords(text) : text \in NetworkTexts}
          \/ /\ storeDictionary.kind = "record"
             /\ now - storeDictionary.timestamp >= DICTIONARY_MAX_AGE
             /\ storeDictionary' = [kind |-> "absent"]
             /\ cacheWrites' = cacheWrites
     /\ cacheWrites' # cacheWrites => storeDictionary' # storeDictionary
     /\ (dictionary'.loadPromise = "rejected" \/ fetches' = 0) =>
          /\ cacheWrites' = 0
          /\ storeDictionary'.kind = "record" => storeDictionary' = storeDictionary
     /\ storeDictionary'.kind = "record" =>
          Range(storeDictionary'.words) # fallbackWords]_vars

\* C36 witness: the load ended on the fallback path, both preloadDictionary
\* and a round have gone on with the fallback list, and nothing is stored
\* under the dictionary key.
C36_Witness ==
  /\ dictionary.loadPromise = "rejected"
  /\ dictionary.words = fallbackWords
  /\ ~preloadWaiting
  /\ gameState.isActive
  /\ cacheWrites = 0
  /\ storeDictionary = [kind |-> "absent"]

\* The high score as Storage.get(HIGH_SCORE, 0) reads it.
HighScoreRead(stored) == IF stored = NULL THEN 0 ELSE stored

\* The larger of two numbers.
Larger(a, b) == IF a >= b THEN a ELSE b

\* C37: starting with nothing stored, the stored high score (read with its
\* default 0) and bestScore of the stored statistics (0 while there are none)
\* are equal in every state; a timer completion sets both to the larger of
\* their value before and the score of the round that completes, and no other
\* step changes them: so both are the maximum score over the completed
\* rounds, 0 if there is none, and never decrease.
C37_HighScoreIsBestScore ==
  [][/\ HighScoreRead(storeHighScore) = Stat(storeStats, "bestScore")
     /\ HighScoreRead(storeHighScore') = Stat(storeStats', "bestScore")
     /\ storeStats.kind = "absent" => HighScoreRead(storeHighScore) = 0
     /\ IF RoundCompletes
          THEN HighScoreRead(storeHighScore') =
                 Larger(HighScoreRead(storeHighScore), gameState'.score)
          ELSE UNCHANGED <<storeHighScore, storeStats>>]_vars

\* C37 witness: two rounds have completed, the second with a lower score than
\* the first, and both stored values are the score of the first.
C37_Witness ==
  /\ ~gameState.isActive
  /\ gameState.gameEndTime # NULL
  /\ Stat(storeStats, "gamesPlayed") = 2
  /\ gameState.score < storeHighScore
  /\ storeHighScore = storeStats.bestScore
  /\ storeStats.totalScore = storeHighScore + gameState.score

(***************************************************************************)
(* The application with its character cards: selectCharacter is reached    *)
(* from the click and keydown listeners of the two cards, whose argument   *)
(* is the card's character; a direct call may pass any string.             *)
(***************************************************************************)
CharacterArgs == Characters \cup {"dragon"}

NextCharacters ==
  \/ Next
  \/ \E character \in CharacterArgs : SelectCharacter(character)

SpecCharacters == Init /\ [][NextCharacters]_vars

\* C38: whatever selectedCharacter holds when startGame() begins a round, the
\* round begins with selectedCharacter = 'viking': the character chosen with
\* selectCharacter does not survive startGame.
C38_EveryRoundBeginsAsViking ==
  [][rounds' = rounds + 1 => gameState'.selectedCharacter = "viking"]_vars

\* C38 witness: the valkyrie was the last character selected, and the round
\* begun after that runs with the viking.
C38_Witness ==
  /\ chosen = "valkyrie"
  /\ rounds = 1
  /\ gameState.isActive
  /\ gameState.selectedCharacter = "viking"

====
